---- MODULE Spec2Model ----
(***************************************************************************)
(* k8sbroker: the resource-lifecycle controller (Broker.Provision,         *)
(* Deprovision, Bind, Unbind of k8sbroker.go) over an abstract Store and   *)
(* an abstract cluster Gateway (persistent volumes and claims).            *)
(*                                                                         *)
(* Every external call (Gateway create/delete, Store read/write, Save) and *)
(* every lock/unlock is one step of the calling request, so that requests  *)
(* handled concurrently interleave exactly where the Go code lets them.    *)
(* Deferred functions run in Go's order: last registered, first run.       *)
(***************************************************************************)
EXTENDS Integers, Sequences, FiniteSets, TLC

(***************************************************************************)
(* Bounds of the model.                                                    *)
(***************************************************************************)
\* number of volume handles (uuid.NewV4 results) that may be generated
MaxHandles == 2

\* number of entries a catalog file may hold
MaxCatalog == 2

\* number of connections the registry may try to open
MaxDials == 3

\* the concurrent request handlers of the protocol layer
Procs == {"h1", "h2"}

InstanceIDs == {"i1", "i2"}
BindingIDs == {"b1", "b2"}
VolumeNames == {"vol1", "vol2"}
PlanIDs == {"planA"}

(***************************************************************************)
(* Error values returned by the operations.                                *)
(***************************************************************************)
Nil == "nil"
ErrRawParamsInvalid == "ErrRawParamsInvalid"
ErrRequiresName == "config requires a name"
ErrRequiresCapacityRange == "config requires a capacity_range"
ErrRequiresServer == "config requires a server"
ErrRequiresShare == "config requires a share"
ErrUUID == "uuid generation failed"
ErrServiceNotFound == "ErrServiceNotFound"
ErrCreateVolume == "gateway create-volume error"
ErrDeleteVolume == "gateway delete-volume error"
ErrCreateClaim == "gateway create-claim error"
ErrDeleteClaim == "gateway delete-claim error"
ErrInstanceAlreadyExists == "ErrInstanceAlreadyExists"
ErrInstanceDoesNotExist == "ErrInstanceDoesNotExist"
ErrBindingAlreadyExists == "ErrBindingAlreadyExists"
ErrBindingDoesNotExist == "ErrBindingDoesNotExist"
ErrStoreInstance == "failed to store instance details"
ErrDeleteInstanceDetails == "store delete-instance error"
ErrCreateBindingDetails == "store create-binding error"
ErrDeleteBindingDetails == "store delete-binding error"
ErrSave == "store save error"
ErrEmptyInstanceID == "volume deletion requires instance ID"
ErrJSON == "json unmarshal error"
ErrReadFile == "read file error"
ErrInvalidSpecFile == "ErrInvalidSpecFile"
ErrEmptySpecFile == "ErrEmptySpecFile"
ErrInvalidService == "ErrInvalidService"
ErrDial == "grpc dial error"

DefaultContainerPath == "/var/vcap/data"

(***************************************************************************)
(* The services registry (services_registry.go).                           *)
(*                                                                         *)
(* registry is the servicesRegistry object of the process together with    *)
(* the history of what it did:                                             *)
(*   loaded             NewServicesRegistry has returned a registry        *)
(*   services           r.services                                         *)
(*   identityClients    r.identityClients, service ID -> client            *)
(*   controllerClients  r.controllerClients, service ID -> client          *)
(*   dialed             history: service ID -> number of grpcShim.Dial     *)
(*                      calls made for it                                  *)
(*   opened             history: service ID -> number of those calls that  *)
(*                      returned a connection                              *)
(*   file               history: the spec file NewServicesRegistry read    *)
(*   result             the last call: its name and argument, what it      *)
(*                      returned, and the caches and counters as they      *)
(*                      were when it was made                              *)
(*   callers            the goroutines that call IdentityClient at the     *)
(*                      same time: where each one stands in the method     *)
(*   fatal              the Go runtime has ended the process with a fatal  *)
(*                      error (unsynchronized accesses to a map)           *)
(***************************************************************************)
VARIABLE registry

\* a Service of the catalog file.  Plans is <<>> for a nil slice (the key
\* is absent or null) and <<list>> for a decoded array, the empty one too.
Service(id, name, description, plans, driverName, connAddr) ==
  [ID |-> id, Name |-> name, Description |-> description, Plans |-> plans,
   DriverName |-> driverName, ConnAddr |-> connAddr]

NilPlans == <<>>
PlanList(list) == <<list>>

\* the catalog the broker's registry was loaded with
Services ==
  << Service("svc1", "one", "first", PlanList(<<"planA">>), "nfs-driver", ""),
     Service("svc2", "two", "second", PlanList(<<"planA">>), "other-driver",
             "addr2") >>

ServiceIDs == {"svc1", "svc-unknown"}

\* a lookup that takes the first entry whatever its ID
findServiceByID_FirstEntry(serviceID) ==
  IF registry.services = <<>> THEN <<>> ELSE <<registry.services[1]>>

\* findServiceByID: the first catalog entry with this ID, as <<service>>,
\* or <<>> when there is none
findServiceByID(serviceID) ==
  LET idx == {k \in 1..Len(registry.services) :
                registry.services[k].ID = serviceID}
  IN IF idx = {} THEN <<>>
     ELSE <<registry.services[CHOOSE k \in idx : \A m \in idx : k <= m]>>

\* DriverName: [err, id, name], id being the ID an ErrServiceNotFound carries
DriverName(serviceID) ==
  LET found == findServiceByID(serviceID)
  IN IF found = <<>>
     THEN [err |-> ErrServiceNotFound, id |-> serviceID, name |-> ""]
     ELSE [err |-> Nil, id |-> "", name |-> found[1].DriverName]

(***************************************************************************)
(* Provision requests: the raw parameters as a parsed CreateVolumeRequest  *)
(* (wellFormed = FALSE is a body jsonpb cannot decode).                    *)
(***************************************************************************)
Configuration(wf, name, cap, server, share) ==
  [wellFormed |-> wf, Name |-> name, hasCapacityRange |-> cap,
   RequiredBytes |-> 2, hasServer |-> server, hasShare |-> share]

ValidConfigurations ==
  {Configuration(TRUE, n, TRUE, TRUE, TRUE) : n \in VolumeNames}

InvalidConfigurations ==
  { Configuration(FALSE, "", FALSE, FALSE, FALSE),
    Configuration(TRUE, "vol1", TRUE, TRUE, FALSE) }

ProvisionDetails(service, plan, config) ==
  [ServiceID |-> service, PlanID |-> plan, OrganizationGUID |-> "org",
   SpaceGUID |-> "space", RawParameters |-> config]

ProvisionRequests ==
  {ProvisionDetails("svc1", pl, c) : pl \in PlanIDs, c \in ValidConfigurations}
  \cup {ProvisionDetails("svc1", "planA", c) : c \in InvalidConfigurations}
  \cup {ProvisionDetails("svc-unknown", "planA",
                         Configuration(TRUE, "vol1", TRUE, TRUE, TRUE))}

NoProvisionDetails ==
  ProvisionDetails("", "", Configuration(FALSE, "", FALSE, FALSE, FALSE))

\* the checks made in another order: share first
ValidateConfiguration_ShareFirst(configuration) ==
  IF ~configuration.wellFormed THEN ErrRawParamsInvalid
  ELSE IF ~configuration.hasShare THEN ErrRequiresShare
  ELSE IF ~configuration.hasServer THEN ErrRequiresServer
  ELSE IF ~configuration.hasCapacityRange THEN ErrRequiresCapacityRange
  ELSE IF configuration.Name = "" THEN ErrRequiresName
  ELSE Nil

\* The checks of Provision before it generates the volume handle.
ValidateConfiguration(configuration) ==
  IF ~configuration.wellFormed THEN ErrRawParamsInvalid
  ELSE IF configuration.Name = "" THEN ErrRequiresName
  ELSE IF ~configuration.hasCapacityRange THEN ErrRequiresCapacityRange
  ELSE IF ~configuration.hasServer THEN ErrRequiresServer
  ELSE IF ~configuration.hasShare THEN ErrRequiresShare
  ELSE Nil

(***************************************************************************)
(* Cluster objects.                                                        *)
(***************************************************************************)
\* the persistent volume Provision asks the Gateway to create
PersistentVolume(name, quantity, driverName, volumeHandle) ==
  [Name |-> name, Label |-> name, AccessMode |-> "ReadWriteMany",
   Capacity |-> quantity, Driver |-> driverName,
   VolumeHandle |-> volumeHandle]

NoVolume == PersistentVolume("", 0, "", 0)

ServiceFingerPrint(name, volume) == [Name |-> name, Volume |-> volume]

ServiceInstance(details, fingerprint) ==
  [ServiceID |-> details.ServiceID, PlanID |-> details.PlanID,
   OrganizationGUID |-> details.OrganizationGUID,
   SpaceGUID |-> details.SpaceGUID, ServiceFingerPrint |-> fingerprint]

\* getFingerprint: a record written by Provision in this process carries a
\* typed fingerprint, which is returned as it is
getFingerprint(rawObject) == [err |-> Nil, fingerprint |-> rawObject]

(***************************************************************************)
(* Bind requests: the free-form JSON parameters.  A JSON value is          *)
(* [kind, val]; kind "absent" is a key that is not in the map.             *)
(***************************************************************************)
JSONValue(kind, val) == [kind |-> kind, val |-> val]
Absent == JSONValue("absent", "")

\* rawNil: RawParameters is nil; wellFormed: json.Unmarshal accepts it
Parameters(rawNil, wf, readonly, mount) ==
  [rawNil |-> rawNil, wellFormed |-> wf, readonly |-> readonly,
   mount |-> mount]

BindDetails(app, params) ==
  [AppGUID |-> app, PlanID |-> "planA", ServiceID |-> "svc1",
   RawParameters |-> params]

BindRequests ==
  { BindDetails("app1", Parameters(TRUE, TRUE, Absent, Absent)),
    BindDetails("app1", Parameters(FALSE, TRUE, JSONValue("bool", "true"),
                                   JSONValue("string", "/mnt"))),
    BindDetails("app1", Parameters(FALSE, TRUE, JSONValue("string", ""),
                                   Absent)),
    BindDetails("app1", Parameters(FALSE, TRUE, Absent,
                                   JSONValue("number", "5"))),
    BindDetails("app1", Parameters(FALSE, FALSE, Absent, Absent)) }

NoBindDetails == BindDetails("", Parameters(TRUE, TRUE, Absent, Absent))

\* a mode evaluation that takes every boolean for true
evaluateMode_AnyBoolReadOnly(parameters) ==
  IF parameters.readonly.kind # "absent"
  THEN IF parameters.readonly.kind = "bool"
       THEN [err |-> Nil, cfMode |-> "r", k8sMode |-> "ReadOnlyMany"]
       ELSE [err |-> ErrRawParamsInvalid, cfMode |-> "", k8sMode |-> ""]
  ELSE [err |-> Nil, cfMode |-> "rw", k8sMode |-> "ReadWriteMany"]

\* evaluateMode: [err, cfMode, k8sMode]
evaluateMode(parameters) ==
  IF parameters.readonly.kind # "absent"
  THEN IF parameters.readonly.kind = "bool"
       THEN IF parameters.readonly.val = "true"
            THEN [err |-> Nil, cfMode |-> "r", k8sMode |-> "ReadOnlyMany"]
            ELSE [err |-> Nil, cfMode |-> "rw", k8sMode |-> "ReadWriteMany"]
       ELSE [err |-> ErrRawParamsInvalid, cfMode |-> "", k8sMode |-> ""]
  ELSE [err |-> Nil, cfMode |-> "rw", k8sMode |-> "ReadWriteMany"]

\* a container path that ignores the mount parameter
evaluateContainerPath_IgnoresMount(parameters, volId) ==
  [panic |-> FALSE, path |-> <<DefaultContainerPath, volId>>]

\* evaluateContainerPath: [panic, path], a path being the sequence of the
\* segments that were joined; the type assertion containerPath.(string)
\* aborts on a value that is not a string
evaluateContainerPath(parameters, volId) ==
  IF parameters.mount.kind # "absent"
     /\ ~(parameters.mount.kind = "string" /\ parameters.mount.val = "")
  THEN IF parameters.mount.kind = "string"
       THEN [panic |-> FALSE, path |-> <<parameters.mount.val>>]
       ELSE [panic |-> TRUE, path |-> <<>>]
  ELSE [panic |-> FALSE, path |-> <<DefaultContainerPath, volId>>]

\* a claim that is always requested read-write
PersistentVolumeClaim_FixedMode(name, k8sMode, capacity, selector) ==
  [Name |-> name, AccessMode |-> "ReadWriteMany", Requests |-> capacity,
   SelectorKey |-> "name", SelectorValue |-> selector]

\* the claim Bind asks the Gateway to create
PersistentVolumeClaim(name, k8sMode, capacity, selector) ==
  [Name |-> name, AccessMode |-> k8sMode, Requests |-> capacity,
   SelectorKey |-> "name", SelectorValue |-> selector]

(***************************************************************************)
(* State.                                                                  *)
(***************************************************************************)
VARIABLES
  instanceStore,    \* Store: instance identifier -> ServiceInstance
  bindingStore,     \* Store: binding identifier -> BindDetails
  volumes,          \* cluster: volume name -> persistent volume object
  claims,           \* cluster: claim name -> claim object
  volumeCreator,    \* history: volume name -> instance whose Provision made it
  claimCreator,     \* history: claim name -> binding whose Bind made it
  mutex,            \* b.mutex: <<>> when free, <<p>> when held by p
  nextHandle,       \* the next fresh volume handle
  call,             \* per handler: the request it runs and its locals
  script,           \* the calls a scripted client still has to issue
  overlap,          \* history: the sets {p, q} of handlers whose present
                    \* calls ran at the same time
  bindingInstance,  \* history: binding identifier -> instance it was bound to
  gatewayRejectsDuplicates, \* the Gateway refuses to create an existing name
  callsMayFail      \* Gateway and Store calls may fail for outside reasons

broker == <<instanceStore, bindingStore, volumes, claims, volumeCreator,
            claimCreator, mutex, nextHandle, call, script, overlap,
            bindingInstance, gatewayRejectsDuplicates, callsMayFail>>

vars == <<broker, registry>>

env == <<gatewayRejectsDuplicates, callsMayFail>>

\* groups of variables that change together
pv == <<volumes, volumeCreator>>
pvc == <<claims, claimCreator>>
bindings == <<bindingStore, bindingInstance>>
client == <<script, overlap>>

\* a handler that runs no request
NoCall ==
  [op |-> "none", pc |-> "done", instanceID |-> "", bindingID |-> "",
   provisionDetails |-> NoProvisionDetails, bindDetails |-> NoBindDetails,
   volumeHandle |-> 0, driverName |-> "", volume |-> NoVolume,
   fingerprintName |-> "", capacity |-> 0, cfMode |-> "", k8sMode |-> "",
   claimName |-> "", containerDir |-> <<>>, e |-> Nil, panicked |-> FALSE,
   \* the Binding that Bind returns: Credentials (<<>> is nil) and, of its
   \* volume mount, Device.VolumeId; ContainerDir, Mode and
   \* MountConfig["name"] are containerDir, cfMode and claimName
   credentials |-> <<>>, volumeId |-> <<>>,
   \* history of the call
   existed |-> FALSE,        \* Provision: the instance had a record at call time
   conflict |-> FALSE,       \* the Store reported a conflict
   failures |-> {},          \* the external calls of it that failed
   deletedName |-> "",       \* the name given to its last Gateway delete call
   createdObject |-> FALSE,  \* its Gateway create call succeeded
   wroteRecord |-> FALSE,    \* its Store create call succeeded
   removedRecord |-> FALSE,  \* its Store delete call succeeded
   createCalls |-> 0,        \* Gateway create calls issued
   deleteCalls |-> 0,        \* Gateway delete calls issued
   deletedObject |-> FALSE,  \* a Gateway delete call of it succeeded
   saveCalls |-> 0,          \* Store Save calls issued
   saveAt |-> "",            \* where Save was called: "locked"/"unlocked"
   cleanupAt |-> "",         \* where the compensating delete was called
   readUnderBind |-> FALSE]  \* Deprovision: the record was retrieved while
                             \* a Bind past its instance lookup held the mutex

Idle(p) == call[p].pc = "done"

Quiescent == (\A p \in Procs : Idle(p)) /\ mutex = <<>>

\* outcomes of an external call: TRUE = it succeeds
Outcomes == IF callsMayFail THEN {TRUE, FALSE} ELSE {TRUE}

\* outcomes of a Gateway create call for a name
CreateOutcomes(exists) ==
  IF exists /\ gatewayRejectsDuplicates THEN {FALSE} ELSE Outcomes

(***************************************************************************)
(* The Store (brokerstore.Store), keeping its records in memory.           *)
(***************************************************************************)
EmptyMap == [x \in {} |-> 0]
Put(f, k, v) == [x \in DOMAIN f \cup {k} |-> IF x = k THEN v ELSE f[x]]
Remove(f, k) == [x \in DOMAIN f \ {k} |-> f[x]]
Lookup(f, k) == IF k \in DOMAIN f THEN <<f[k]>> ELSE <<>>

\* a conflict: a record with this identifier exists and differs
IsInstanceConflict(id, details) ==
  id \in DOMAIN instanceStore /\ instanceStore[id] # details

IsBindingConflict(id, details) ==
  id \in DOMAIN bindingStore /\ bindingStore[id] # details

\* a conflict check that never reports a conflict
instanceConflicts_Never(details, instanceID) == FALSE

\* b.instanceConflicts and b.bindingConflicts
instanceConflicts(details, instanceID) == IsInstanceConflict(instanceID, details)

\* a binding conflict check that never reports a conflict
bindingConflicts_Never(bindingID, details) == FALSE

bindingConflicts(bindingID, details) == IsBindingConflict(bindingID, details)

\* deleting a record that is not there is an error of the Store
DeleteOutcomes(present) == IF present THEN Outcomes ELSE {FALSE}

(***************************************************************************)
(* The registry object and its methods (services_registry.go 40-159).      *)
(* Every method is one step: the registry's callers are sequential.        *)
(***************************************************************************)
\* the caches and counters a call finds
Snapshot ==
  [identityClients |-> registry.identityClients,
   controllerClients |-> registry.controllerClients,
   dialed |-> registry.dialed,
   opened |-> registry.opened]

NoSnapshot ==
  [identityClients |-> EmptyMap, controllerClients |-> EmptyMap,
   dialed |-> EmptyMap, opened |-> EmptyMap]

\* what a call returned: err, the ID an ErrServiceNotFound carries, the
\* Index an ErrInvalidService carries (<<>> or <<index>>), the client
\* (<<>> or <<client>>) and the driver name
Result(op, serviceID, err, id, index, clnt, name, before) ==
  [op |-> op, serviceID |-> serviceID, err |-> err, id |-> id,
   index |-> index, client |-> clnt, name |-> name, before |-> before]

NoResult == Result("", "", Nil, "", <<>>, <<>>, "", NoSnapshot)

\* the spec file: unreadable, not JSON, or a decoded list of services
SpecFile(readable, wellFormed, services) ==
  [readable |-> readable, wellFormed |-> wellFormed, services |-> services]

NoFile == SpecFile(FALSE, FALSE, <<>>)

\* a goroutine that is not in IdentityClient: the last call it made, what
\* the call returned, and whether the call called Dial
NoCaller ==
  [pc |-> "done", serviceID |-> "", err |-> Nil, client |-> <<>>,
   dialed |-> FALSE]

\* no registry: NewServicesRegistry has not returned one
NoRegistry ==
  [loaded |-> FALSE, file |-> NoFile, services |-> <<>>,
   identityClients |-> EmptyMap, controllerClients |-> EmptyMap,
   dialed |-> EmptyMap, opened |-> EmptyMap, result |-> NoResult,
   callers |-> [p \in Procs |-> NoCaller], fatal |-> FALSE]

\* lines 76-82: the registry NewServicesRegistry returns
Registry(services) ==
  [NoRegistry EXCEPT !.loaded = TRUE, !.services = services]

Count(f, k) == IF k \in DOMAIN f THEN f[k] ELSE 0

RECURSIVE Total(_)
Total(f) ==
  IF DOMAIN f = {} THEN 0
  ELSE LET k == CHOOSE x \in DOMAIN f : TRUE
       IN f[k] + Total(Remove(f, k))

\* line 68: an entry NewServicesRegistry rejects
InvalidService(service) ==
  \/ service.ID = ""
  \/ service.Name = ""
  \/ service.Description = ""
  \/ service.Plans = NilPlans

\* NewServicesRegistry (lines 40-82)
NewServicesRegistry(file) ==
  /\ ~registry.loaded
  /\ registry.result.op = ""
  /\ LET failed(err, index) ==
           [NoRegistry EXCEPT !.file = file, !.result =
              Result("NewServicesRegistry", "", err, "", index, <<>>, "",
                     NoSnapshot)]
         bad == {k \in 1..Len(file.services) :
                   InvalidService(file.services[k])}
     IN registry' =
          IF ~file.readable THEN failed(ErrReadFile, <<>>)
          ELSE IF ~file.wellFormed THEN failed(ErrInvalidSpecFile, <<>>)
          ELSE IF Len(file.services) < 1 THEN failed(ErrEmptySpecFile, <<>>)
          ELSE IF bad # {}
               THEN failed(ErrInvalidService,
                           <<(CHOOSE k \in bad : \A m \in bad : k <= m) - 1>>)
          ELSE [Registry(file.services) EXCEPT !.file = file, !.result =
                  Result("NewServicesRegistry", "", Nil, "", <<>>, <<>>, "",
                         NoSnapshot)]
  /\ UNCHANGED broker

\* the clients: csiShim.NewIdentityClient(conn), NewControllerClient(conn)
\* and the no-op ones; conn numbers the connection, 0 being none
Client(kind, conn) == [kind |-> kind, conn |-> conn]

\* grpcShim.Dial for a service: counted, and with a connection when ok
Dial(r, serviceID, ok) ==
  [r EXCEPT !.dialed = Put(r.dialed, serviceID, Count(r.dialed, serviceID) + 1),
            !.opened = IF ok
                       THEN Put(r.opened, serviceID,
                                Count(r.opened, serviceID) + 1)
                       ELSE r.opened]

\* an IdentityClient that does not look into its cache
IdentityClient_NoCache(serviceID) ==
  /\ registry.loaded
  /\ LET found == findServiceByID(serviceID)
         ret(err, id, clnt) ==
           Result("IdentityClient", serviceID, err, id, <<>>, clnt, "",
                  Snapshot)
     IN IF found = <<>>
        THEN registry' =
               [registry EXCEPT !.result =
                  ret(ErrServiceNotFound, serviceID, <<>>)]
        ELSE IF found[1].ConnAddr = ""
        THEN registry' =
               [registry EXCEPT !.result =
                  ret(Nil, "", <<Client("NoopIdentityClient", 0)>>)]
        ELSE /\ Total(registry.dialed) < MaxDials
             /\ \E ok \in BOOLEAN :
                  LET conn == Total(registry.opened) + 1
                      identityClient == Client("IdentityClient", conn)
                      dialed == Dial(registry, serviceID, ok)
                  IN registry' =
                       IF ~ok
                       THEN [dialed EXCEPT !.result = ret(ErrDial, "", <<>>)]
                       ELSE [dialed EXCEPT
                               !.identityClients =
                                  Put(registry.identityClients, serviceID,
                                      identityClient),
                               !.result = ret(Nil, "", <<identityClient>>)]
  /\ UNCHANGED broker

\* IdentityClient (lines 84-107)
IdentityClient(serviceID) ==
  /\ registry.loaded
  /\ LET found == findServiceByID(serviceID)
         ret(err, id, clnt) ==
           Result("IdentityClient", serviceID, err, id, <<>>, clnt, "",
                  Snapshot)
     IN IF serviceID \in DOMAIN registry.identityClients
        THEN registry' =
               [registry EXCEPT !.result =
                  ret(Nil, "", <<registry.identityClients[serviceID]>>)]
        ELSE IF found = <<>>
        THEN registry' =
               [registry EXCEPT !.result =
                  ret(ErrServiceNotFound, serviceID, <<>>)]
        ELSE IF found[1].ConnAddr = ""
        THEN registry' =
               [registry EXCEPT !.result =
                  ret(Nil, "", <<Client("NoopIdentityClient", 0)>>)]
        ELSE /\ Total(registry.dialed) < MaxDials
             /\ \E ok \in BOOLEAN :
                  LET conn == Total(registry.opened) + 1
                      identityClient == Client("IdentityClient", conn)
                      dialed == Dial(registry, serviceID, ok)
                  IN registry' =
                       IF ~ok
                       THEN [dialed EXCEPT !.result = ret(ErrDial, "", <<>>)]
                       ELSE [dialed EXCEPT
                               !.identityClients =
                                  Put(registry.identityClients, serviceID,
                                      identityClient),
                               !.result = ret(Nil, "", <<identityClient>>)]
  /\ UNCHANGED broker

\* a ControllerClient that caches the client though Dial failed
ControllerClient_CachesFailure(serviceID) ==
  /\ registry.loaded
  /\ LET found == findServiceByID(serviceID)
         ret(err, id, clnt) ==
           Result("ControllerClient", serviceID, err, id, <<>>, clnt, "",
                  Snapshot)
     IN IF serviceID \in DOMAIN registry.controllerClients
        THEN registry' =
               [registry EXCEPT !.result =
                  ret(Nil, "", <<registry.controllerClients[serviceID]>>)]
        ELSE IF found = <<>>
        THEN registry' =
               [registry EXCEPT !.result =
                  ret(ErrServiceNotFound, serviceID, <<>>)]
        ELSE IF found[1].ConnAddr = ""
        THEN registry' =
               [registry EXCEPT !.result =
                  ret(Nil, "", <<Client("NoopControllerClient", 0)>>)]
        ELSE /\ Total(registry.dialed) < MaxDials
             /\ \E ok \in BOOLEAN :
                  LET conn == Total(registry.opened) + 1
                      controllerClient == Client("ControllerClient", conn)
                      dialed == Dial(registry, serviceID, ok)
                  IN registry' =
                       [dialed EXCEPT
                          !.controllerClients =
                             Put(registry.controllerClients, serviceID,
                                 controllerClient),
                          !.result = IF ok
                                     THEN ret(Nil, "", <<controllerClient>>)
                                     ELSE ret(ErrDial, "", <<>>)]
  /\ UNCHANGED broker

\* ControllerClient (lines 109-131)
ControllerClient(serviceID) ==
  /\ registry.loaded
  /\ LET found == findServiceByID(serviceID)
         ret(err, id, clnt) ==
           Result("ControllerClient", serviceID, err, id, <<>>, clnt, "",
                  Snapshot)
     IN IF serviceID \in DOMAIN registry.controllerClients
        THEN registry' =
               [registry EXCEPT !.result =
                  ret(Nil, "", <<registry.controllerClients[serviceID]>>)]
        ELSE IF found = <<>>
        THEN registry' =
               [registry EXCEPT !.result =
                  ret(ErrServiceNotFound, serviceID, <<>>)]
        ELSE IF found[1].ConnAddr = ""
        THEN registry' =
               [registry EXCEPT !.result =
                  ret(Nil, "", <<Client("NoopControllerClient", 0)>>)]
        ELSE /\ Total(registry.dialed) < MaxDials
             /\ \E ok \in BOOLEAN :
                  LET conn == Total(registry.opened) + 1
                      controllerClient == Client("ControllerClient", conn)
                      dialed == Dial(registry, serviceID, ok)
                  IN registry' =
                       IF ~ok
                       THEN [dialed EXCEPT !.result = ret(ErrDial, "", <<>>)]
                       ELSE [dialed EXCEPT
                               !.controllerClients =
                                  Put(registry.controllerClients, serviceID,
                                      controllerClient),
                               !.result = ret(Nil, "", <<controllerClient>>)]
  /\ UNCHANGED broker

(***************************************************************************)
(* IdentityClient called by several goroutines at the same time.  The      *)
(* method takes no lock, so its steps interleave: the lookup in the map    *)
(* (line 85), Dial (98), and the assignment to the map (104), which takes  *)
(* time: it begins and it ends.  Accesses to a Go map that overlap, one of *)
(* them an assignment, are a data race: the runtime either lets them       *)
(* through or ends the process ("fatal error: concurrent map writes",      *)
(* "concurrent map read and map write").                                   *)
(***************************************************************************)
\* some other goroutine is in the middle of its assignment to the map
Assigning(p) ==
  \E q \in Procs \ {p} : registry.callers[q].pc = "assigning"

\* outcomes of a map access: TRUE = the runtime ends the process
RaceOutcomes(p) == IF Assigning(p) THEN {FALSE, TRUE} ELSE {FALSE}

\* lines 84-96: the lookup in the cache and in the catalog
IdentityClientLookup(p, serviceID) ==
  /\ registry.loaded /\ ~registry.fatal
  /\ registry.callers[p].pc = "done"
  /\ LET found == findServiceByID(serviceID)
         called == [NoCaller EXCEPT !.serviceID = serviceID]
         to(c) == registry' = [registry EXCEPT !.callers[p] = c]
     IN \E fatal \in RaceOutcomes(p) :
          IF fatal
          THEN registry' = [registry EXCEPT !.fatal = TRUE,
                                            !.callers[p] = called]
          ELSE IF serviceID \in DOMAIN registry.identityClients
          THEN to([called EXCEPT
                     !.client = <<registry.identityClients[serviceID]>>])
          ELSE IF found = <<>>
          THEN to([called EXCEPT !.err = ErrServiceNotFound])
          ELSE IF found[1].ConnAddr = ""
          THEN to([called EXCEPT
                     !.client = <<Client("NoopIdentityClient", 0)>>])
          ELSE to([called EXCEPT !.pc = "dial"])
  /\ UNCHANGED broker

\* lines 98-103: Dial and csiShim.NewIdentityClient
IdentityClientDial(p) ==
  /\ ~registry.fatal
  /\ registry.callers[p].pc = "dial"
  /\ Total(registry.dialed) < MaxDials
  /\ LET c == registry.callers[p]
     IN \E ok \in BOOLEAN :
          LET dialed == Dial(registry, c.serviceID, ok)
              identityClient ==
                Client("IdentityClient", Total(registry.opened) + 1)
          IN registry' =
               IF ok
               THEN [dialed EXCEPT
                       !.callers[p] = [c EXCEPT !.pc = "assign",
                                                !.dialed = TRUE,
                                                !.client = <<identityClient>>]]
               ELSE [dialed EXCEPT
                       !.callers[p] = [c EXCEPT !.pc = "done",
                                                !.dialed = TRUE,
                                                !.err = ErrDial]]
  /\ UNCHANGED broker

\* line 104: the assignment to the map begins
IdentityClientAssign(p) ==
  /\ ~registry.fatal
  /\ registry.callers[p].pc = "assign"
  /\ \E fatal \in RaceOutcomes(p) :
       registry' = [registry EXCEPT !.fatal = fatal,
                                    !.callers[p].pc = "assigning"]
  /\ UNCHANGED broker

\* lines 104-106: the assignment ends, the client is returned
IdentityClientReturn(p) ==
  /\ ~registry.fatal
  /\ registry.callers[p].pc = "assigning"
  /\ LET c == registry.callers[p]
     IN registry' =
          [registry EXCEPT
             !.identityClients = Put(@, c.serviceID, c.client[1]),
             !.callers[p].pc = "done"]
  /\ UNCHANGED broker

\* a call of DriverName (lines 142-149) by the registry's user
CallDriverName(serviceID) ==
  /\ registry.loaded
  /\ LET d == DriverName(serviceID)
     IN registry' =
          [registry EXCEPT !.result =
             Result("DriverName", serviceID, d.err, d.id, <<>>, <<>>, d.name,
                    Snapshot)]
  /\ UNCHANGED broker

Init ==
  /\ instanceStore = EmptyMap
  /\ bindingStore = EmptyMap
  /\ volumes = EmptyMap
  /\ claims = EmptyMap
  /\ volumeCreator = EmptyMap
  /\ claimCreator = EmptyMap
  /\ mutex = <<>>
  /\ nextHandle = 1
  /\ call = [p \in Procs |-> NoCall]
  /\ script = <<>>
  /\ overlap = {}
  /\ bindingInstance = EmptyMap
  /\ gatewayRejectsDuplicates \in BOOLEAN
  /\ callsMayFail \in BOOLEAN
  /\ registry = Registry(Services)

\* a handler's step: the handlers never touch the registry's caches (the
\* only registry method they call is DriverName)
Set(p, c) == call' = [call EXCEPT ![p] = c] /\ UNCHANGED registry

\* a call of p begins: it runs at the same time as the calls in progress
Begins(p) ==
  overlap' = {o \in overlap : p \notin o}
             \cup {{p, q} : q \in {r \in Procs \ {p} : ~Idle(r)}}

(***************************************************************************)
(* Provision (k8sbroker.go 139-258).                                       *)
(***************************************************************************)
\* lines 139-185: decode and validate the request, generate the volume
\* handle, resolve the driver name.  (ParseQuantity of a formatted integer,
\* lines 169-173, cannot fail.)
BeginProvision(p, instanceID, details) ==
  /\ Idle(p)
  /\ nextHandle <= MaxHandles
  /\ Begins(p)
  /\ LET invalid == ValidateConfiguration(details.RawParameters)
         driver == DriverName(details.ServiceID)
         c == [NoCall EXCEPT !.op = "Provision", !.instanceID = instanceID,
                             !.provisionDetails = details,
                             !.existed = instanceID \in DOMAIN instanceStore]
     IN IF invalid # Nil
        THEN /\ Set(p, [c EXCEPT !.e = invalid])
             /\ UNCHANGED nextHandle
        ELSE \E uuidOk \in Outcomes :
               IF ~uuidOk
               THEN /\ Set(p, [c EXCEPT !.e = ErrUUID, !.failures = {"uuid"}])
                    /\ UNCHANGED nextHandle
               ELSE /\ nextHandle' = nextHandle + 1
                    /\ IF driver.err # Nil
                       THEN Set(p, [c EXCEPT !.e = driver.err,
                                             !.volumeHandle = nextHandle])
                       ELSE Set(p, [c EXCEPT !.pc = "P_create",
                                             !.volumeHandle = nextHandle,
                                             !.driverName = driver.name])
  /\ UNCHANGED <<instanceStore, bindings, pv, pvc, mutex, env>>

\* a request of the protocol layer
CallProvision(p, instanceID, details) ==
  /\ script = <<>>
  /\ BeginProvision(p, instanceID, details)
  /\ UNCHANGED script

\* a create-volume call whose failure runs the deferred Save and compensation
ProvisionCreateVolume_Continues(p) ==
  /\ call[p].pc = "P_create"
  /\ LET c == call[p]
         configuration == c.provisionDetails.RawParameters
         requested == PersistentVolume(configuration.Name,
                                       configuration.RequiredBytes,
                                       c.driverName, c.volumeHandle)
     IN \E ok \in CreateOutcomes(configuration.Name \in DOMAIN volumes) :
          IF ok
          THEN /\ volumes' = Put(volumes, configuration.Name, requested)
               /\ volumeCreator' = Put(volumeCreator, configuration.Name,
                                       c.instanceID)
               /\ Set(p, [c EXCEPT !.pc = "P_lock", !.volume = requested,
                                   !.createdObject = TRUE,
                                   !.createCalls = @ + 1])
          ELSE /\ Set(p, [c EXCEPT !.pc = "P_lock", !.e = ErrCreateVolume,
                                   !.failures = @ \cup {"create"},
                                   !.createCalls = @ + 1])
               /\ UNCHANGED pv
  /\ UNCHANGED <<instanceStore, bindings, pvc, mutex, nextHandle, client, env>>

\* lines 187-215: the create-volume call; on failure Provision returns
ProvisionCreateVolume(p) ==
  /\ call[p].pc = "P_create"
  /\ LET c == call[p]
         configuration == c.provisionDetails.RawParameters
         requested == PersistentVolume(configuration.Name,
                                       configuration.RequiredBytes,
                                       c.driverName, c.volumeHandle)
     IN \E ok \in CreateOutcomes(configuration.Name \in DOMAIN volumes) :
          IF ok
          THEN /\ volumes' = Put(volumes, configuration.Name, requested)
               /\ volumeCreator' = Put(volumeCreator, configuration.Name,
                                       c.instanceID)
               /\ Set(p, [c EXCEPT !.pc = "P_lock", !.volume = requested,
                                   !.createdObject = TRUE,
                                   !.createCalls = @ + 1])
          ELSE /\ Set(p, [c EXCEPT !.pc = "done", !.e = ErrCreateVolume,
                                   !.failures = @ \cup {"create"},
                                   !.createCalls = @ + 1])
               /\ UNCHANGED pv
  /\ UNCHANGED <<instanceStore, bindings, pvc, mutex, nextHandle, client, env>>

\* a Lock that does not wait for the mutex
Lock_NoWait(p, from, to) ==
  /\ call[p].pc = from
  /\ mutex' = <<p>>
  /\ Set(p, [call[p] EXCEPT !.pc = to])
  /\ UNCHANGED <<instanceStore, bindings, pv, pvc, nextHandle, client, env>>

\* b.mutex.Lock() of all four operations
Lock(p, from, to) ==
  /\ call[p].pc = from
  /\ mutex = <<>>
  /\ mutex' = <<p>>
  /\ Set(p, [call[p] EXCEPT !.pc = to])
  /\ UNCHANGED <<instanceStore, bindings, pv, pvc, nextHandle, client, env>>

\* line 227
ProvisionLock(p) == Lock(p, "P_lock", "P_conflict")

\* the InstanceRecord Provision builds (lines 236-246)
instanceDetails(c) ==
  ServiceInstance(c.provisionDetails,
                  ServiceFingerPrint(c.provisionDetails.RawParameters.Name,
                                     c.volume))

\* lines 248-250: the conflict check
ProvisionCheckConflict(p) ==
  /\ call[p].pc = "P_conflict"
  /\ IF instanceConflicts(instanceDetails(call[p]), call[p].instanceID)
     THEN Set(p, [call[p] EXCEPT !.pc = "P_save", !.conflict = TRUE,
                                 !.e = ErrInstanceAlreadyExists])
     ELSE Set(p, [call[p] EXCEPT !.pc = "P_store"])
  /\ UNCHANGED <<instanceStore, bindings, pv, pvc, mutex, nextHandle, client,
                 env>>

\* ProvisionStore losing the Store's error
ProvisionStore_SwallowsError(p) ==
  /\ call[p].pc = "P_store"
  /\ \E ok \in Outcomes :
       IF ok
       THEN /\ instanceStore' = Put(instanceStore, call[p].instanceID,
                                    instanceDetails(call[p]))
            /\ Set(p, [call[p] EXCEPT !.pc = "P_save", !.wroteRecord = TRUE])
       ELSE /\ Set(p, [call[p] EXCEPT !.pc = "P_save",
                                      !.failures = @ \cup {"store"}])
            /\ UNCHANGED instanceStore
  /\ UNCHANGED <<bindings, pv, pvc, mutex, nextHandle, client, env>>

\* lines 251-257: CreateInstanceDetails
ProvisionStore(p) ==
  /\ call[p].pc = "P_store"
  /\ \E ok \in Outcomes :
       IF ok
       THEN /\ instanceStore' = Put(instanceStore, call[p].instanceID,
                                    instanceDetails(call[p]))
            /\ Set(p, [call[p] EXCEPT !.pc = "P_save", !.wroteRecord = TRUE])
       ELSE /\ Set(p, [call[p] EXCEPT !.pc = "P_save",
                                      !.e = ErrStoreInstance,
                                      !.failures = @ \cup {"store"}])
            /\ UNCHANGED instanceStore
  /\ UNCHANGED <<bindings, pv, pvc, mutex, nextHandle, client, env>>

\* a deferred Save whose error replaces the error of an earlier step
DeferredSave_Overwrites(p, from, to) ==
  /\ call[p].pc = from
  /\ \E ok \in Outcomes :
       Set(p, [call[p] EXCEPT
                 !.pc = to,
                 !.e = IF ~ok THEN ErrSave ELSE @,
                 !.failures = IF ok THEN @ ELSE @ \cup {"save"},
                 !.saveCalls = @ + 1,
                 !.saveAt = IF mutex = <<p>> THEN "locked" ELSE "unlocked"])
  /\ UNCHANGED <<instanceStore, bindings, pv, pvc, mutex, nextHandle, client,
                 env>>

\* a deferred function that calls Save only when no earlier step failed
DeferredSave_OnlyOnSuccess(p, from, to) ==
  /\ call[p].pc = from
  /\ IF call[p].e # Nil
     THEN Set(p, [call[p] EXCEPT !.pc = to])
     ELSE \E ok \in Outcomes :
            Set(p, [call[p] EXCEPT
                      !.pc = to,
                      !.e = IF ~ok THEN ErrSave ELSE @,
                      !.failures = IF ok THEN @ ELSE @ \cup {"save"},
                      !.saveCalls = @ + 1,
                      !.saveAt = IF mutex = <<p>> THEN "locked"
                                 ELSE "unlocked"])
  /\ UNCHANGED <<instanceStore, bindings, pv, pvc, mutex, nextHandle, client,
                 env>>

\* the deferred Save of all four operations (e.g. lines 229-234): its error
\* is returned only when no earlier error was
DeferredSave(p, from, to) ==
  /\ call[p].pc = from
  /\ \E ok \in Outcomes :
       Set(p, [call[p] EXCEPT
                 !.pc = to,
                 !.e = IF @ = Nil /\ ~ok THEN ErrSave ELSE @,
                 !.failures = IF ok THEN @ ELSE @ \cup {"save"},
                 !.saveCalls = @ + 1,
                 !.saveAt = IF mutex = <<p>> THEN "locked" ELSE "unlocked"])
  /\ UNCHANGED <<instanceStore, bindings, pv, pvc, mutex, nextHandle, client,
                 env>>

\* a return path that leaves the mutex locked
DeferredUnlock_Never(p, from, to) ==
  /\ call[p].pc = from
  /\ Set(p, [call[p] EXCEPT !.pc = to])
  /\ UNCHANGED <<instanceStore, bindings, pv, pvc, mutex, nextHandle, client,
                 env>>

\* the deferred b.mutex.Unlock() of all four operations
DeferredUnlock(p, from, to) ==
  /\ call[p].pc = from
  /\ mutex' = <<>>
  /\ Set(p, [call[p] EXCEPT !.pc = to])
  /\ UNCHANGED <<instanceStore, bindings, pv, pvc, nextHandle, client, env>>

\* lines 229-234: deferred last, so run first
ProvisionSave(p) == DeferredSave(p, "P_save", "P_unlock")

\* line 228
ProvisionUnlock(p) == DeferredUnlock(p, "P_unlock", "P_cleanup")

\* ProvisionCleanup without the compensating delete
ProvisionCleanup_Never(p) ==
  /\ call[p].pc = "P_cleanup"
  /\ Set(p, [call[p] EXCEPT !.pc = "done"])
  /\ UNCHANGED <<instanceStore, bindings, pv, pvc, mutex, nextHandle, client,
                 env>>

\* lines 217-224: deferred first, so run last, after Save and Unlock: when
\* Provision returns an error the volume is deleted by its name
ProvisionCleanup(p) ==
  /\ call[p].pc = "P_cleanup"
  /\ LET c == call[p]
         name == c.provisionDetails.RawParameters.Name
     IN IF c.e # Nil
        THEN \E ok \in Outcomes :
               /\ volumes' = IF ok THEN Remove(volumes, name) ELSE volumes
               /\ volumeCreator' = IF ok THEN Remove(volumeCreator, name)
                                   ELSE volumeCreator
               /\ Set(p, [c EXCEPT
                            !.pc = "done", !.deleteCalls = @ + 1,
                            !.deletedName = name,
                            !.deletedObject = ok,
                            !.failures = IF ok THEN @ ELSE @ \cup {"cleanup"},
                            !.cleanupAt = IF mutex = <<p>> THEN "locked"
                                          ELSE "unlocked"])
        ELSE /\ Set(p, [c EXCEPT !.pc = "done"])
             /\ UNCHANGED pv
  /\ UNCHANGED <<instanceStore, bindings, pvc, mutex, nextHandle, client, env>>

(***************************************************************************)
(* Deprovision (k8sbroker.go 260-303).                                     *)
(***************************************************************************)
\* lines 260-281: reject the empty identifier, retrieve the record, take
\* its fingerprint
BeginDeprovision(p, instanceID) ==
  /\ Idle(p)
  /\ Begins(p)
  /\ LET holder == /\ mutex # <<>>
                   /\ call[mutex[1]].pc \in {"B_create", "B_store", "B_cleanup",
                                             "B_save", "B_unlock"}
         called == [NoCall EXCEPT !.op = "Deprovision",
                                  !.instanceID = instanceID]
         c == [called EXCEPT !.readUnderBind = holder]
     IN IF instanceID = ""
        THEN Set(p, [called EXCEPT !.e = ErrEmptyInstanceID])
        ELSE IF instanceID \notin DOMAIN instanceStore
        THEN Set(p, [c EXCEPT !.e = ErrInstanceDoesNotExist])
        ELSE LET fp == getFingerprint(
                         instanceStore[instanceID].ServiceFingerPrint)
             IN IF fp.err # Nil
                THEN Set(p, [c EXCEPT !.e = fp.err])
                ELSE Set(p, [c EXCEPT
                               !.pc = "D_delete",
                               !.fingerprintName = fp.fingerprint.Volume.Name])
  /\ UNCHANGED <<instanceStore, bindings, pv, pvc, mutex, nextHandle, env>>

CallDeprovision(p, instanceID) ==
  /\ script = <<>>
  /\ BeginDeprovision(p, instanceID)
  /\ UNCHANGED script

\* a Deprovision that goes on after a failed delete-volume call
DeprovisionDeleteVolume_Continues(p) ==
  /\ call[p].pc = "D_delete"
  /\ LET c == call[p]
     IN \E ok \in Outcomes :
          IF ok
          THEN /\ volumes' = Remove(volumes, c.fingerprintName)
               /\ volumeCreator' = Remove(volumeCreator, c.fingerprintName)
               /\ Set(p, [c EXCEPT !.pc = "D_lock", !.deleteCalls = @ + 1,
                                   !.deletedName = c.fingerprintName,
                                   !.deletedObject = TRUE])
          ELSE /\ Set(p, [c EXCEPT !.pc = "D_lock", !.e = ErrDeleteVolume,
                                   !.deletedName = c.fingerprintName,
                                   !.failures = @ \cup {"delete"},
                                   !.deleteCalls = @ + 1])
               /\ UNCHANGED pv
  /\ UNCHANGED <<instanceStore, bindings, pvc, mutex, nextHandle, client, env>>

\* lines 283-286: the delete-volume call; on failure Deprovision returns
DeprovisionDeleteVolume(p) ==
  /\ call[p].pc = "D_delete"
  /\ LET c == call[p]
     IN \E ok \in Outcomes :
          IF ok
          THEN /\ volumes' = Remove(volumes, c.fingerprintName)
               /\ volumeCreator' = Remove(volumeCreator, c.fingerprintName)
               /\ Set(p, [c EXCEPT !.pc = "D_lock", !.deleteCalls = @ + 1,
                                   !.deletedName = c.fingerprintName,
                                   !.deletedObject = TRUE])
          ELSE /\ Set(p, [c EXCEPT !.pc = "done", !.e = ErrDeleteVolume,
                                   !.deletedName = c.fingerprintName,
                                   !.failures = @ \cup {"delete"},
                                   !.deleteCalls = @ + 1])
               /\ UNCHANGED pv
  /\ UNCHANGED <<instanceStore, bindings, pvc, mutex, nextHandle, client, env>>

\* line 288
DeprovisionLock(p) == Lock(p, "D_lock", "D_store")

\* DeprovisionStore leaving the record in the Store
DeprovisionStore_KeepsRecord(p) ==
  /\ call[p].pc = "D_store"
  /\ Set(p, [call[p] EXCEPT !.pc = "D_save", !.removedRecord = TRUE])
  /\ UNCHANGED <<instanceStore, bindings, pv, pvc, mutex, nextHandle, client,
                 env>>

\* lines 297-302: DeleteInstanceDetails
DeprovisionStore(p) ==
  /\ call[p].pc = "D_store"
  /\ \E ok \in DeleteOutcomes(call[p].instanceID \in DOMAIN instanceStore) :
       IF ok
       THEN /\ instanceStore' = Remove(instanceStore, call[p].instanceID)
            /\ Set(p, [call[p] EXCEPT !.pc = "D_save",
                                      !.removedRecord = TRUE])
       ELSE /\ Set(p, [call[p] EXCEPT !.pc = "D_save",
                                      !.e = ErrDeleteInstanceDetails,
                                      !.failures = @ \cup {"store"}])
            /\ UNCHANGED instanceStore
  /\ UNCHANGED <<bindings, pv, pvc, mutex, nextHandle, client, env>>

\* lines 290-295
DeprovisionSave(p) == DeferredSave(p, "D_save", "D_unlock")

\* line 289
DeprovisionUnlock(p) == DeferredUnlock(p, "D_unlock", "done")

(***************************************************************************)
(* Bind (k8sbroker.go 305-412).  The lock is taken first and held to the   *)
(* end.                                                                    *)
(***************************************************************************)
BeginBind(p, instanceID, bindingID, bindDetails) ==
  /\ Idle(p)
  /\ Begins(p)
  /\ Set(p, [NoCall EXCEPT !.op = "Bind", !.pc = "B_lock",
                           !.instanceID = instanceID,
                           !.bindingID = bindingID,
                           !.bindDetails = bindDetails])
  /\ UNCHANGED <<instanceStore, bindings, pv, pvc, mutex, nextHandle, env>>

CallBind(p, instanceID, bindingID, bindDetails) ==
  /\ script = <<>>
  /\ BeginBind(p, instanceID, bindingID, bindDetails)
  /\ UNCHANGED script

\* line 310
BindLock(p) == Lock(p, "B_lock", "B_check")

\* the parameter map of a bind request (lines 331-339): empty when the raw
\* parameters are nil
params(bindDetails) ==
  IF bindDetails.RawParameters.rawNil
  THEN Parameters(TRUE, TRUE, Absent, Absent)
  ELSE bindDetails.RawParameters

\* lines 320-349: retrieve the instance, decode the parameters, check the
\* binding conflict, evaluate the mode; nothing is mutated
BindCheck(p) ==
  /\ call[p].pc = "B_check"
  /\ LET c == call[p]
         fail(err) == Set(p, [c EXCEPT !.pc = "B_save", !.e = err])
     IN IF c.instanceID \notin DOMAIN instanceStore
        THEN fail(ErrInstanceDoesNotExist)
        ELSE LET fp == getFingerprint(
                         instanceStore[c.instanceID].ServiceFingerPrint)
                 mode == evaluateMode(params(c.bindDetails))
             IN IF fp.err # Nil THEN fail(fp.err)
                ELSE IF ~params(c.bindDetails).wellFormed THEN fail(ErrJSON)
                ELSE IF bindingConflicts(c.bindingID, c.bindDetails)
                THEN Set(p, [c EXCEPT !.pc = "B_save", !.conflict = TRUE,
                                      !.e = ErrBindingAlreadyExists])
                ELSE IF mode.err # Nil THEN fail(ErrRawParamsInvalid)
                ELSE Set(p, [c EXCEPT
                               !.pc = "B_create",
                               !.fingerprintName = fp.fingerprint.Volume.Name,
                               !.capacity = fp.fingerprint.Volume.Capacity,
                               !.cfMode = mode.cfMode,
                               !.k8sMode = mode.k8sMode])
  /\ UNCHANGED <<instanceStore, bindings, pv, pvc, mutex, nextHandle, client,
                 env>>

\* a create-claim call whose failure runs the compensation
BindCreateClaim_Continues(p) ==
  /\ call[p].pc = "B_create"
  /\ LET c == call[p]
         requested == PersistentVolumeClaim(c.fingerprintName, c.k8sMode,
                                            c.capacity, c.fingerprintName)
     IN \E ok \in CreateOutcomes(c.fingerprintName \in DOMAIN claims) :
          IF ok
          THEN /\ claims' = Put(claims, c.fingerprintName, requested)
               /\ claimCreator' = Put(claimCreator, c.fingerprintName,
                                      c.bindingID)
               /\ Set(p, [c EXCEPT !.pc = "B_store",
                                   !.claimName = requested.Name,
                                   !.createdObject = TRUE,
                                   !.createCalls = @ + 1])
          ELSE /\ Set(p, [c EXCEPT !.pc = "B_cleanup", !.e = ErrCreateClaim,
                                   !.failures = @ \cup {"create"},
                                   !.createCalls = @ + 1])
               /\ UNCHANGED pvc
  /\ UNCHANGED <<instanceStore, bindings, pv, mutex, nextHandle, client, env>>

\* lines 351-377: the create-claim call; on failure Bind returns (through
\* the deferred Save and Unlock)
BindCreateClaim(p) ==
  /\ call[p].pc = "B_create"
  /\ LET c == call[p]
         requested == PersistentVolumeClaim(c.fingerprintName, c.k8sMode,
                                            c.capacity, c.fingerprintName)
     IN \E ok \in CreateOutcomes(c.fingerprintName \in DOMAIN claims) :
          IF ok
          THEN /\ claims' = Put(claims, c.fingerprintName, requested)
               /\ claimCreator' = Put(claimCreator, c.fingerprintName,
                                      c.bindingID)
               /\ Set(p, [c EXCEPT !.pc = "B_store",
                                   !.claimName = requested.Name,
                                   !.createdObject = TRUE,
                                   !.createCalls = @ + 1])
          ELSE /\ Set(p, [c EXCEPT !.pc = "B_save", !.e = ErrCreateClaim,
                                   !.failures = @ \cup {"create"},
                                   !.createCalls = @ + 1])
               /\ UNCHANGED pvc
  /\ UNCHANGED <<instanceStore, bindings, pv, mutex, nextHandle, client, env>>

\* lines 389-411: CreateBindingDetails, then the result is built;
\* evaluateContainerPath may abort there
BindStore(p) ==
  /\ call[p].pc = "B_store"
  /\ LET c == call[p]
         dir == evaluateContainerPath(params(c.bindDetails), c.instanceID)
     IN \E ok \in Outcomes :
          IF ok
          THEN /\ bindingStore' = Put(bindingStore, c.bindingID, c.bindDetails)
               /\ bindingInstance' = Put(bindingInstance, c.bindingID,
                                         c.instanceID)
               /\ Set(p, [c EXCEPT
                            !.pc = "B_cleanup", !.wroteRecord = TRUE,
                            !.panicked = dir.panic,
                            !.containerDir = dir.path,
                            !.credentials = IF dir.panic THEN <<>>
                                            ELSE <<"struct{}">>,
                            !.volumeId = IF dir.panic THEN <<>>
                                         ELSE <<c.instanceID, "-volume">>])
          ELSE /\ Set(p, [c EXCEPT !.pc = "B_cleanup",
                                   !.e = ErrCreateBindingDetails,
                                   !.failures = @ \cup {"store"}])
               /\ UNCHANGED bindings
  /\ UNCHANGED <<instanceStore, pv, pvc, mutex, nextHandle, client, env>>

\* BindCleanup without the compensating delete
BindCleanup_Never(p) ==
  /\ call[p].pc = "B_cleanup"
  /\ Set(p, [call[p] EXCEPT !.pc = "B_save"])
  /\ UNCHANGED <<instanceStore, bindings, pv, pvc, mutex, nextHandle, client,
                 env>>

\* lines 379-386: deferred last, so run first, before Save: when an error
\* is set by then, the claim is deleted by its name
BindCleanup(p) ==
  /\ call[p].pc = "B_cleanup"
  /\ LET c == call[p]
     IN IF c.e # Nil
        THEN \E ok \in Outcomes :
               /\ claims' = IF ok THEN Remove(claims, c.fingerprintName)
                            ELSE claims
               /\ claimCreator' = IF ok
                                  THEN Remove(claimCreator, c.fingerprintName)
                                  ELSE claimCreator
               /\ Set(p, [c EXCEPT
                            !.pc = "B_save", !.deleteCalls = @ + 1,
                            !.deletedName = c.fingerprintName,
                            !.deletedObject = ok,
                            !.failures = IF ok THEN @ ELSE @ \cup {"cleanup"},
                            !.cleanupAt = IF mutex = <<p>> THEN "locked"
                                          ELSE "unlocked"])
        ELSE /\ Set(p, [c EXCEPT !.pc = "B_save"])
             /\ UNCHANGED pvc
  /\ UNCHANGED <<instanceStore, bindings, pv, mutex, nextHandle, client, env>>

\* lines 312-317
BindSave(p) == DeferredSave(p, "B_save", "B_unlock")

\* line 311
BindUnlock(p) == DeferredUnlock(p, "B_unlock", "done")

(***************************************************************************)
(* Unbind (k8sbroker.go 414-452).                                          *)
(***************************************************************************)
BeginUnbind(p, instanceID, bindingID) ==
  /\ Idle(p)
  /\ Begins(p)
  /\ Set(p, [NoCall EXCEPT !.op = "Unbind", !.pc = "U_lock",
                           !.instanceID = instanceID,
                           !.bindingID = bindingID])
  /\ UNCHANGED <<instanceStore, bindings, pv, pvc, mutex, nextHandle, env>>

CallUnbind(p, instanceID, bindingID) ==
  /\ script = <<>>
  /\ BeginUnbind(p, instanceID, bindingID)
  /\ UNCHANGED script

\* line 419
UnbindLock(p) == Lock(p, "U_lock", "U_check")

\* UnbindCheck without the retrieval of the binding
UnbindCheck_NoBindingCheck(p) ==
  /\ call[p].pc = "U_check"
  /\ LET c == call[p]
         fail(err) == Set(p, [c EXCEPT !.pc = "U_save", !.e = err])
     IN IF c.instanceID \notin DOMAIN instanceStore
        THEN fail(ErrInstanceDoesNotExist)
        ELSE LET fp == getFingerprint(
                         instanceStore[c.instanceID].ServiceFingerPrint)
             IN IF fp.err # Nil THEN fail(fp.err)
                ELSE Set(p, [c EXCEPT
                               !.pc = "U_delete",
                               !.fingerprintName = fp.fingerprint.Volume.Name])
  /\ UNCHANGED <<instanceStore, bindings, pv, pvc, mutex, nextHandle, client,
                 env>>

\* lines 428-441: retrieve the instance and the binding
UnbindCheck(p) ==
  /\ call[p].pc = "U_check"
  /\ LET c == call[p]
         fail(err) == Set(p, [c EXCEPT !.pc = "U_save", !.e = err])
     IN IF c.instanceID \notin DOMAIN instanceStore
        THEN fail(ErrInstanceDoesNotExist)
        ELSE IF c.bindingID \notin DOMAIN bindingStore
        THEN fail(ErrBindingDoesNotExist)
        ELSE LET fp == getFingerprint(
                         instanceStore[c.instanceID].ServiceFingerPrint)
             IN IF fp.err # Nil THEN fail(fp.err)
                ELSE Set(p, [c EXCEPT
                               !.pc = "U_delete",
                               !.fingerprintName = fp.fingerprint.Volume.Name])
  /\ UNCHANGED <<instanceStore, bindings, pv, pvc, mutex, nextHandle, client,
                 env>>

\* a delete-claim call whose failure does not stop Unbind
UnbindDeleteClaim_Continues(p) ==
  /\ call[p].pc = "U_delete"
  /\ LET c == call[p]
     IN \E ok \in Outcomes :
          IF ok
          THEN /\ claims' = Remove(claims, c.fingerprintName)
               /\ claimCreator' = Remove(claimCreator, c.fingerprintName)
               /\ Set(p, [c EXCEPT !.pc = "U_store", !.deleteCalls = @ + 1,
                                   !.deletedName = c.fingerprintName,
                                   !.deletedObject = TRUE])
          ELSE /\ Set(p, [c EXCEPT !.pc = "U_store", !.e = ErrDeleteClaim,
                                   !.deletedName = c.fingerprintName,
                                   !.failures = @ \cup {"delete"},
                                   !.deleteCalls = @ + 1])
               /\ UNCHANGED pvc
  /\ UNCHANGED <<instanceStore, bindings, pv, mutex, nextHandle, client, env>>

\* lines 443-446: the delete-claim call
UnbindDeleteClaim(p) ==
  /\ call[p].pc = "U_delete"
  /\ LET c == call[p]
     IN \E ok \in Outcomes :
          IF ok
          THEN /\ claims' = Remove(claims, c.fingerprintName)
               /\ claimCreator' = Remove(claimCreator, c.fingerprintName)
               /\ Set(p, [c EXCEPT !.pc = "U_store", !.deleteCalls = @ + 1,
                                   !.deletedName = c.fingerprintName,
                                   !.deletedObject = TRUE])
          ELSE /\ Set(p, [c EXCEPT !.pc = "U_save", !.e = ErrDeleteClaim,
                                   !.deletedName = c.fingerprintName,
                                   !.failures = @ \cup {"delete"},
                                   !.deleteCalls = @ + 1])
               /\ UNCHANGED pvc
  /\ UNCHANGED <<instanceStore, bindings, pv, mutex, nextHandle, client, env>>

\* lines 448-451: DeleteBindingDetails
UnbindStore(p) ==
  /\ call[p].pc = "U_store"
  /\ \E ok \in DeleteOutcomes(call[p].bindingID \in DOMAIN bindingStore) :
       IF ok
       THEN /\ bindingStore' = Remove(bindingStore, call[p].bindingID)
            /\ bindingInstance' = Remove(bindingInstance, call[p].bindingID)
            /\ Set(p, [call[p] EXCEPT !.pc = "U_save",
                                      !.removedRecord = TRUE])
       ELSE /\ Set(p, [call[p] EXCEPT !.pc = "U_save",
                                      !.e = ErrDeleteBindingDetails,
                                      !.failures = @ \cup {"store"}])
            /\ UNCHANGED bindings
  /\ UNCHANGED <<instanceStore, pv, pvc, mutex, nextHandle, client, env>>

\* lines 421-426
UnbindSave(p) == DeferredSave(p, "U_save", "U_unlock")

\* line 420
UnbindUnlock(p) == DeferredUnlock(p, "U_unlock", "done")

(***************************************************************************)
(* The steps of the four operations.                                       *)
(***************************************************************************)
ProvisionStep(p) ==
  \/ ProvisionCreateVolume(p)
  \/ ProvisionLock(p)
  \/ ProvisionCheckConflict(p)
  \/ ProvisionStore(p)
  \/ ProvisionSave(p)
  \/ ProvisionUnlock(p)
  \/ ProvisionCleanup(p)

DeprovisionStep(p) ==
  \/ DeprovisionDeleteVolume(p)
  \/ DeprovisionLock(p)
  \/ DeprovisionStore(p)
  \/ DeprovisionSave(p)
  \/ DeprovisionUnlock(p)

BindStep(p) ==
  \/ BindLock(p)
  \/ BindCheck(p)
  \/ BindCreateClaim(p)
  \/ BindStore(p)
  \/ BindCleanup(p)
  \/ BindSave(p)
  \/ BindUnlock(p)

UnbindStep(p) ==
  \/ UnbindLock(p)
  \/ UnbindCheck(p)
  \/ UnbindDeleteClaim(p)
  \/ UnbindStore(p)
  \/ UnbindSave(p)
  \/ UnbindUnlock(p)

(***************************************************************************)
(* Spec: two handlers run all four operations concurrently on one          *)
(* instance and one binding.                                               *)
(***************************************************************************)
VolumeRequest(name) ==
  ProvisionDetails("svc1", "planA", Configuration(TRUE, name, TRUE, TRUE, TRUE))

ReadWriteBind == BindDetails("app1", Parameters(TRUE, TRUE, Absent, Absent))

ReadOnlyBind ==
  BindDetails("app1", Parameters(FALSE, TRUE, JSONValue("bool", "true"),
                                 JSONValue("string", "/mnt")))

Next ==
  \E p \in Procs :
    \/ CallProvision(p, "i1", VolumeRequest("vol1"))
    \/ CallDeprovision(p, "i1")
    \/ CallBind(p, "i1", "b1", ReadWriteBind)
    \/ CallUnbind(p, "i1", "b1")
    \/ ProvisionStep(p)
    \/ DeprovisionStep(p)
    \/ BindStep(p)
    \/ UnbindStep(p)

Spec == Init /\ [][Next]_vars

(***************************************************************************)
(* SpecInstances: two handlers run Provision and Deprovision concurrently  *)
(* on two instances; one instance is requested under two volume names and  *)
(* one volume name is requested for both instances.                        *)
(***************************************************************************)
NextInstances ==
  \E p \in Procs :
    \/ \E r \in {<<"i1", "vol1">>, <<"i1", "vol2">>, <<"i2", "vol1">>} :
         CallProvision(p, r[1], VolumeRequest(r[2]))
    \/ \E i \in InstanceIDs : CallDeprovision(p, i)
    \/ ProvisionStep(p)
    \/ DeprovisionStep(p)

SpecInstances == Init /\ [][NextInstances]_vars

(***************************************************************************)
(* SpecProvisions: two handlers run Provision, concurrently or one after   *)
(* the other, with any of the provision requests; nothing removes a record.*)
(***************************************************************************)
NextProvisions ==
  \E p \in Procs :
    \/ \E i \in InstanceIDs, d \in ProvisionRequests : CallProvision(p, i, d)
    \/ ProvisionStep(p)

SpecProvisions == Init /\ [][NextProvisions]_vars

(***************************************************************************)
(* SpecValidation: one handler runs Provision with every combination of    *)
(* present and absent request fields.                                      *)
(***************************************************************************)
AllConfigurations ==
  {Configuration(wf, n, cap, server, share) :
     wf \in BOOLEAN, n \in {"", "vol1"}, cap \in BOOLEAN,
     server \in BOOLEAN, share \in BOOLEAN}

NextValidation ==
  \/ \E c \in AllConfigurations :
       CallProvision("h1", "i1", ProvisionDetails("svc1", "planA", c))
  \/ ProvisionStep("h1")

SpecValidation == Init /\ [][NextValidation]_vars

(***************************************************************************)
(* SpecBindings: one handler runs the four operations one after the other, *)
(* also on an empty or unknown instance identifier, on an unknown binding, *)
(* and with every kind of value for the readonly parameter.                *)
(***************************************************************************)
ReadonlyValues ==
  {Absent, JSONValue("bool", "true"), JSONValue("bool", "false"),
   JSONValue("string", "true"), JSONValue("number", "1"),
   JSONValue("null", "")}

BindInputs ==
  {BindDetails("app1", Parameters(FALSE, TRUE, ro, Absent)) :
     ro \in ReadonlyValues}
  \cup {ReadWriteBind,
        BindDetails("app1", Parameters(FALSE, FALSE, Absent, Absent))}

NextBindings ==
  \/ CallProvision("h1", "i1", VolumeRequest("vol1"))
  \/ \E i \in {"", "i1", "i2"} : CallDeprovision("h1", i)
  \/ \E i \in {"i1", "i2"}, d \in BindInputs : CallBind("h1", i, "b1", d)
  \/ \E i \in {"i1", "i2"}, b \in BindingIDs : CallUnbind("h1", i, b)
  \/ ProvisionStep("h1")
  \/ DeprovisionStep("h1")
  \/ BindStep("h1")
  \/ UnbindStep("h1")

SpecBindings == Init /\ [][NextBindings]_vars

(***************************************************************************)
(* SpecClaims: one handler runs the four operations one after the other on *)
(* one instance, provisioned with one of two volumes of different names    *)
(* and capacities, two bindings, and every value of the readonly and of    *)
(* the mount parameter.  No external call fails for outside reasons.       *)
(***************************************************************************)
InitClaims == Init /\ ~callsMayFail

SizedRequest(name, bytes) ==
  ProvisionDetails("svc1", "planA",
                   [Configuration(TRUE, name, TRUE, TRUE, TRUE)
                      EXCEPT !.RequiredBytes = bytes])

ClaimInputs ==
  {BindDetails("app1", Parameters(FALSE, TRUE, x[1], x[2])) :
     x \in {<<Absent, JSONValue("string", "/mnt")>>,
            <<JSONValue("bool", "true"), JSONValue("string", "/mnt")>>,
            <<JSONValue("bool", "true"), Absent>>,
            <<JSONValue("bool", "false"), JSONValue("string", "")>>,
            <<Absent, JSONValue("number", "5")>>}}
  \cup {ReadWriteBind}

NextClaims ==
  \/ CallProvision("h1", "i1", SizedRequest("vol1", 2))
  \/ CallProvision("h1", "i1", SizedRequest("vol2", 5))
  \/ CallDeprovision("h1", "i1")
  \/ \E b \in BindingIDs, d \in ClaimInputs : CallBind("h1", "i1", b, d)
  \/ \E b \in BindingIDs : CallUnbind("h1", "i1", b)
  \/ ProvisionStep("h1")
  \/ DeprovisionStep("h1")
  \/ BindStep("h1")
  \/ UnbindStep("h1")

SpecClaims == InitClaims /\ [][NextClaims]_vars

(***************************************************************************)
(* SpecRace: two goroutines call IdentityClient of the broker's registry   *)
(* at the same time.                                                       *)
(***************************************************************************)
InitRace == Init /\ ~gatewayRejectsDuplicates /\ ~callsMayFail

NextRace ==
  \E p \in Procs :
    \/ \E serviceID \in {"svc1", "svc2"} : IdentityClientLookup(p, serviceID)
    \/ IdentityClientDial(p)
    \/ IdentityClientAssign(p)
    \/ IdentityClientReturn(p)

SpecRace == InitRace /\ [][NextRace]_vars

(***************************************************************************)
(* SpecLive: one handler runs Provision and Deprovision, the other one     *)
(* Bind and Unbind, concurrently on one instance and one binding, with     *)
(* calls that may fail, a Gateway that accepts every name, and a Bind      *)
(* whose mount parameter is not a string.  Every handler that can take a   *)
(* step                                                                    *)
(* takes one: the Go scheduler runs every runnable goroutine, and          *)
(* sync.Mutex hands the mutex to a goroutine that has waited for it (its   *)
(* starvation mode), so a handler for which the mutex is free again and    *)
(* again does get it.                                                      *)
(***************************************************************************)
NumberMountBind ==
  BindDetails("app1", Parameters(FALSE, TRUE, Absent, JSONValue("number", "5")))

HandlerStep(p) ==
  ProvisionStep(p) \/ DeprovisionStep(p) \/ BindStep(p) \/ UnbindStep(p)

InitLive == Init /\ callsMayFail /\ ~gatewayRejectsDuplicates

NextLive ==
  \/ CallProvision("h1", "i1", VolumeRequest("vol1"))
  \/ CallDeprovision("h1", "i1")
  \/ \E d \in {ReadWriteBind, NumberMountBind} : CallBind("h2", "i1", "b1", d)
  \/ CallUnbind("h2", "i1", "b1")
  \/ \E p \in Procs : HandlerStep(p)

SpecLive ==
  /\ InitLive
  /\ [][NextLive]_vars
  /\ \A p \in Procs : SF_vars(HandlerStep(p))

(***************************************************************************)
(* SpecPairs: one handler provisions two instances with volumes of         *)
(* different names and binds and unbinds two bindings, every binding       *)
(* identifier with every instance identifier; no call fails for outside    *)
(* reasons.                                                                *)
(***************************************************************************)
NextPairs ==
  \/ CallProvision("h1", "i1", VolumeRequest("vol1"))
  \/ CallProvision("h1", "i2", VolumeRequest("vol2"))
  \/ \E i \in InstanceIDs, b \in BindingIDs : CallBind("h1", i, b, ReadWriteBind)
  \/ \E i \in InstanceIDs, b \in BindingIDs : CallUnbind("h1", i, b)
  \/ ProvisionStep("h1")
  \/ BindStep("h1")
  \/ UnbindStep("h1")

SpecPairs == InitClaims /\ [][NextPairs]_vars

(***************************************************************************)
(* SpecRegistry: the registry alone.  It is loaded once from one of the    *)
(* spec files, then its methods are called one after the other.            *)
(***************************************************************************)
CatalogEntries ==
  {Service("svc1", "one", "first", PlanList(<<"planA">>), "nfs-driver", ""),
   Service("svc2", "two", "second", PlanList(<<"planA">>), "other-driver",
           "addr2"),
   Service("svc3", "three", "third", PlanList(<<>>), "third-driver", "addr3"),
   Service("", "one", "first", PlanList(<<"planA">>), "nfs-driver", ""),
   Service("svc1", "", "first", PlanList(<<"planA">>), "nfs-driver", ""),
   Service("svc1", "one", "", PlanList(<<"planA">>), "nfs-driver", ""),
   Service("svc2", "two", "second", NilPlans, "other-driver", "addr2")}

RECURSIVE Lists(_)
Lists(n) ==
  IF n = 0 THEN {<<>>}
  ELSE LET shorter == Lists(n - 1)
       IN shorter \cup {Append(l, e) : l \in {x \in shorter : Len(x) = n - 1},
                                       e \in CatalogEntries}

SpecFiles ==
  {SpecFile(FALSE, FALSE, <<>>), SpecFile(TRUE, FALSE, <<>>)}
  \cup {SpecFile(TRUE, TRUE, l) : l \in Lists(MaxCatalog)}

RegistryIDs == {"svc1", "svc2", "svc3", "svc-unknown"}

InitRegistry ==
  /\ instanceStore = EmptyMap
  /\ bindingStore = EmptyMap
  /\ volumes = EmptyMap
  /\ claims = EmptyMap
  /\ volumeCreator = EmptyMap
  /\ claimCreator = EmptyMap
  /\ mutex = <<>>
  /\ nextHandle = 1
  /\ call = [p \in Procs |-> NoCall]
  /\ script = <<>>
  /\ overlap = {}
  /\ bindingInstance = EmptyMap
  /\ gatewayRejectsDuplicates = FALSE
  /\ callsMayFail = FALSE
  /\ registry = NoRegistry

NextRegistry ==
  \/ \E file \in SpecFiles : NewServicesRegistry(file)
  \/ \E serviceID \in RegistryIDs : IdentityClient(serviceID)
  \/ \E serviceID \in RegistryIDs : ControllerClient(serviceID)
  \/ \E serviceID \in RegistryIDs : CallDriverName(serviceID)

SpecRegistry == InitRegistry /\ [][NextRegistry]_vars

(***************************************************************************)
(* SpecE2E: one client issues, one call after the other, the scenario      *)
(* Provision, Bind, Unbind, Deprovision, Deprovision; no call fails.       *)
(***************************************************************************)
Request(op, instanceID, bindingID, provisionDetails, bindDetails) ==
  [op |-> op, instanceID |-> instanceID, bindingID |-> bindingID,
   provisionDetails |-> provisionDetails, bindDetails |-> bindDetails]

Scenario(i, n, b, d) ==
  << Request("Provision", i, "", VolumeRequest(n), NoBindDetails),
     Request("Bind", i, b, NoProvisionDetails, d),
     Request("Unbind", i, b, NoProvisionDetails, NoBindDetails),
     Request("Deprovision", i, "", NoProvisionDetails, NoBindDetails),
     Request("Deprovision", i, "", NoProvisionDetails, NoBindDetails) >>

ScenarioLen == Len(Scenario("i1", "vol1", "b1", ReadWriteBind))

InitE2E ==
  /\ instanceStore = EmptyMap
  /\ bindingStore = EmptyMap
  /\ volumes = EmptyMap
  /\ claims = EmptyMap
  /\ volumeCreator = EmptyMap
  /\ claimCreator = EmptyMap
  /\ mutex = <<>>
  /\ nextHandle = 1
  /\ call = [p \in Procs |-> NoCall]
  /\ script \in {Scenario(i, n, b, d) :
                   i \in InstanceIDs, n \in VolumeNames, b \in BindingIDs,
                   d \in {ReadWriteBind, ReadOnlyBind}}
  /\ overlap = {}
  /\ bindingInstance = EmptyMap
  /\ gatewayRejectsDuplicates \in BOOLEAN
  /\ callsMayFail = FALSE
  /\ registry = Registry(Services)

\* the client issues its next call when the previous one has returned
CallScripted(p) ==
  /\ script # <<>>
  /\ \A q \in Procs : Idle(q)
  /\ script' = Tail(script)
  /\ LET r == Head(script)
     IN \/ r.op = "Provision"
           /\ BeginProvision(p, r.instanceID, r.provisionDetails)
        \/ r.op = "Deprovision" /\ BeginDeprovision(p, r.instanceID)
        \/ r.op = "Bind"
           /\ BeginBind(p, r.instanceID, r.bindingID, r.bindDetails)
        \/ r.op = "Unbind" /\ BeginUnbind(p, r.instanceID, r.bindingID)

NextE2E ==
  \/ CallScripted("h1")
  \/ ProvisionStep("h1")
  \/ DeprovisionStep("h1")
  \/ BindStep("h1")
  \/ UnbindStep("h1")

SpecE2E == InitE2E /\ [][NextE2E]_vars

(***************************************************************************)
(* Properties.                                                             *)
(***************************************************************************)
Done(p, op) == call[p].pc = "done" /\ call[p].op = op

\* the volume a Provision call created (it carries the call's handle) exists
VolumeOfCallExists(c) ==
  \E n \in DOMAIN volumes : volumes[n].VolumeHandle = c.volumeHandle

\* the Store holds the record a Provision call wrote
RecordOfCallStored(c) ==
  /\ c.instanceID \in DOMAIN instanceStore
  /\ instanceStore[c.instanceID].ServiceFingerPrint.Volume.VolumeHandle
       = c.volumeHandle

\* a stored record was made from the same request details
SameRequest(record, details) ==
  /\ record.ServiceID = details.ServiceID
  /\ record.PlanID = details.PlanID
  /\ record.OrganizationGUID = details.OrganizationGUID
  /\ record.SpaceGUID = details.SpaceGUID
  /\ record.ServiceFingerPrint.Name = details.RawParameters.Name

\* C1: in every quiescent state, an instance identifier has an
\* InstanceRecord in the Store if and only if the cluster volume created by
\* its Provision still exists.
C1_RecordIffVolume ==
  Quiescent =>
    \A i \in InstanceIDs :
      (i \in DOMAIN instanceStore)
        <=> (\E n \in DOMAIN volumes : volumeCreator[n] = i)

\* C2: in every quiescent state, a binding identifier has a BindingRecord in
\* the Store if and only if the cluster claim created by its Bind still
\* exists.
C2_RecordIffClaim ==
  Quiescent =>
    \A b \in BindingIDs :
      (b \in DOMAIN bindingStore)
        <=> (\E n \in DOMAIN claims : claimCreator[n] = b)

\* C3: when Provision finds that the instance identifier already has a
\* differing InstanceRecord (and none of its external calls fails), it
\* returns InstanceAlreadyExistsError, has written nothing to the Store, and
\* the volume it created has been deleted, by one delete-volume call for its
\* name, when it returns.
C3_ConflictCompensated ==
  \A p \in Procs :
    (Done(p, "Provision") /\ call[p].conflict /\ call[p].failures = {})
      => /\ call[p].e = ErrInstanceAlreadyExists
         /\ ~call[p].wroteRecord
         /\ ~RecordOfCallStored(call[p])
         /\ call[p].createdObject
         /\ call[p].deleteCalls = 1
         /\ call[p].deletedName = call[p].provisionDetails.RawParameters.Name
         /\ ~VolumeOfCallExists(call[p])

C3_Witness ==
  \E p \in Procs :
    /\ Done(p, "Provision") /\ call[p].conflict /\ call[p].failures = {}
    /\ call[p].instanceID \in DOMAIN instanceStore
    /\ ~SameRequest(instanceStore[call[p].instanceID],
                    call[p].provisionDetails)

\* C4: when CreateInstanceDetails fails during Provision, Provision returns
\* an error and has issued a delete-volume call for the requested volume
\* name before it returns.
C4_StoreFailureCompensated ==
  \A p \in Procs :
    (Done(p, "Provision") /\ "store" \in call[p].failures)
      => /\ call[p].e # Nil
         /\ call[p].createdObject
         /\ call[p].deleteCalls = 1
         /\ call[p].deletedName = call[p].provisionDetails.RawParameters.Name

C4_Witness ==
  \E p \in Procs :
    /\ Done(p, "Provision") /\ "store" \in call[p].failures
    /\ call[p].deletedObject
    /\ ~VolumeOfCallExists(call[p])

\* C5: when Provision returns an error the Store holds no InstanceRecord
\* written by that call, and when Bind returns an error the Store holds no
\* BindingRecord written by that call.
C5_NoRecordOnError ==
  \A p \in Procs :
    /\ (Done(p, "Provision") /\ call[p].e # Nil)
         => ~(call[p].wroteRecord /\ RecordOfCallStored(call[p]))
    /\ (Done(p, "Bind") /\ call[p].e # Nil)
         => ~(call[p].wroteRecord
              /\ call[p].bindingID \in DOMAIN bindingStore)

\* C6: when Save fails in Provision after the volume was created, or in
\* Bind after the claim was created, the created object is deleted by a
\* compensating delete call before the operation returns.
C6_SaveFailureCompensated ==
  \A p \in Procs :
    ((Done(p, "Provision") \/ Done(p, "Bind"))
     /\ call[p].createdObject /\ "save" \in call[p].failures)
      => call[p].deleteCalls = 1

\* two calls of Provision that ran at the same time, for one instance
\* identifier and with differing request details
ConcurrentProvisions(p, q) ==
  /\ p # q
  /\ {p, q} \in overlap
  /\ Done(p, "Provision") /\ Done(q, "Provision")
  /\ call[p].instanceID = call[q].instanceID
  /\ call[p].provisionDetails # call[q].provisionDetails

\* C7: two concurrent Provision calls for one instance identifier with
\* differing details never both persist their record; when the identifier
\* had no record, both created their volume and no external call fails,
\* exactly one persists and the other returns InstanceAlreadyExistsError with its volume deleted.
C7_OneProvisionWins ==
  \A p, q \in Procs :
    ConcurrentProvisions(p, q)
      => /\ ~(call[p].wroteRecord /\ call[q].wroteRecord)
         /\ (/\ call[p].failures = {} /\ call[q].failures = {}
             /\ ~call[p].existed /\ ~call[q].existed
             /\ call[p].createdObject /\ call[q].createdObject
             /\ ~call[p].wroteRecord)
              => /\ call[q].wroteRecord
                 /\ call[q].e = Nil
                 /\ RecordOfCallStored(call[q])
                 /\ call[p].e = ErrInstanceAlreadyExists
                 /\ call[p].deleteCalls = 1
                 /\ ~VolumeOfCallExists(call[p])

C7_Witness ==
  \E p, q \in Procs :
    /\ ConcurrentProvisions(p, q)
    /\ call[p].failures = {} /\ call[q].failures = {}
    /\ ~call[p].existed /\ ~call[q].existed
    /\ call[p].createdObject /\ call[q].createdObject
    /\ call[q].wroteRecord
    /\ call[p].e = ErrInstanceAlreadyExists

\* C8: from an empty Store and cluster and with calls that do not fail, the
\* sequence Provision, Bind, Unbind, Deprovision succeeds at every step,
\* each step leaving exactly the objects and records it should, and a
\* second Deprovision fails with InstanceDoesNotExistError.
C8_EndToEnd ==
  LET c == call["h1"]
      returned == ScenarioLen - Len(script)
      One(f) == Cardinality(DOMAIN f) = 1
      None(f) == DOMAIN f = {}
  IN (Idle("h1") /\ ~callsMayFail) =>
       /\ returned = 1 =>
            /\ c.op = "Provision" /\ c.e = Nil
            /\ DOMAIN volumes = {c.provisionDetails.RawParameters.Name}
            /\ DOMAIN instanceStore = {c.instanceID}
            /\ None(claims) /\ None(bindingStore)
       /\ returned = 2 =>
            /\ c.op = "Bind" /\ c.e = Nil /\ ~c.panicked
            /\ DOMAIN claims = {c.claimName}
            /\ DOMAIN bindingStore = {c.bindingID}
            /\ One(volumes) /\ DOMAIN instanceStore = {c.instanceID}
       /\ returned = 3 =>
            /\ c.op = "Unbind" /\ c.e = Nil
            /\ None(claims) /\ None(bindingStore)
            /\ One(volumes) /\ DOMAIN instanceStore = {c.instanceID}
       /\ returned = 4 =>
            /\ c.op = "Deprovision" /\ c.e = Nil
            /\ None(volumes) /\ None(instanceStore)
            /\ None(claims) /\ None(bindingStore)
       /\ (returned = 5 /\ c.op = "Deprovision") =>
            /\ c.e = ErrInstanceDoesNotExist
            /\ None(volumes) /\ None(instanceStore)
            /\ None(claims) /\ None(bindingStore)

C8_Witness ==
  /\ Idle("h1") /\ ~callsMayFail
  /\ script = <<>>
  /\ call["h1"].op = "Deprovision"
  /\ call["h1"].e = ErrInstanceDoesNotExist
  /\ nextHandle = 2

\* C9: a Provision whose request details are identical to those of the
\* record the Store already holds for the instance identifier never fails
\* with InstanceAlreadyExistsError.
C9_IdenticalNeverConflicts ==
  \A p \in Procs :
    (/\ Done(p, "Provision")
     /\ call[p].instanceID \in DOMAIN instanceStore
     /\ ~RecordOfCallStored(call[p])
     /\ SameRequest(instanceStore[call[p].instanceID],
                    call[p].provisionDetails))
      => call[p].e # ErrInstanceAlreadyExists

\* C10: an instance that still has a BindingRecord is never deprovisioned:
\* every BindingRecord in the Store belongs to an instance that has an
\* InstanceRecord.
C10_BoundNeverDeprovisioned ==
  \A b \in DOMAIN bindingStore : bindingInstance[b] \in DOMAIN instanceStore

\* a call that has returned
Returned(p) == call[p].pc = "done" /\ call[p].op # "none"

\* C11: in each of the four operations, when the operation's Gateway create
\* or delete call fails, Store Save is still called before the operation
\* returns.
C11_SaveAlwaysAttempted ==
  \A p \in Procs :
    (Returned(p) /\ call[p].failures \cap {"create", "delete"} # {})
      => call[p].saveCalls >= 1

\* the error each failing step of an operation makes it return
StepError(op, step) ==
  CASE step = "uuid" -> ErrUUID
    [] step = "create" ->
         IF op = "Provision" THEN ErrCreateVolume ELSE ErrCreateClaim
    [] step = "delete" ->
         IF op = "Deprovision" THEN ErrDeleteVolume ELSE ErrDeleteClaim
    [] step = "store" ->
         CASE op = "Provision" -> ErrStoreInstance
           [] op = "Deprovision" -> ErrDeleteInstanceDetails
           [] op = "Bind" -> ErrCreateBindingDetails
           [] op = "Unbind" -> ErrDeleteBindingDetails

\* C12: the error an operation returns is the error of its earliest failing
\* step; a later failure of Save or of the compensating delete never
\* replaces it, and Save's error is returned exactly when Save failed and no
\* earlier step did.
C12_EarliestErrorReturned ==
  \A p \in Procs :
    (Returned(p) /\ ~call[p].panicked) =>
      LET c == call[p] IN
        /\ \A step \in c.failures \cap {"uuid", "create", "delete", "store"} :
             c.e = StepError(c.op, step)
        /\ c.conflict =>
             c.e = IF c.op = "Provision" THEN ErrInstanceAlreadyExists
                   ELSE ErrBindingAlreadyExists
        /\ (c.e = ErrSave)
             <=> ("save" \in c.failures
                  /\ (c.wroteRecord \/ c.removedRecord))

C12_Witness ==
  \E p, q \in Procs :
    /\ Returned(p) /\ call[p].op = "Bind"
    /\ {"store", "cleanup", "save"} \subseteq call[p].failures
    /\ call[p].e = ErrCreateBindingDetails
    /\ Returned(q) /\ call[q].op = "Provision"
    /\ call[q].e = ErrSave

\* C13: a Provision that fails at or before its create-volume call returns
\* that error with no further side effects: it writes no InstanceRecord,
\* issues no delete-volume call and calls no Save.
C13_EarlyFailureNoSideEffects ==
  \A p \in Procs :
    (Returned(p) /\ call[p].op = "Provision" /\ ~call[p].createdObject)
      => /\ call[p].e \in {ErrRawParamsInvalid, ErrRequiresName,
                           ErrRequiresCapacityRange, ErrRequiresServer,
                           ErrRequiresShare, ErrUUID, ErrServiceNotFound,
                           ErrCreateVolume}
         /\ ~call[p].wroteRecord
         /\ ~RecordOfCallStored(call[p])
         /\ call[p].deleteCalls = 0
         /\ call[p].saveCalls = 0

C13_Witness ==
  \E p \in Procs :
    /\ Returned(p) /\ call[p].op = "Provision"
    /\ "create" \in call[p].failures
    /\ call[p].e = ErrCreateVolume
    /\ call[p].instanceID \in DOMAIN instanceStore

\* C14: Provision checks name, capacity_range, server and share in this
\* order and fails with the error of the first one that is missing; a
\* request with all four passes the validation.
C14_ValidationOrder ==
  \A p \in Procs :
    (/\ Returned(p) /\ call[p].op = "Provision"
     /\ call[p].provisionDetails.RawParameters.wellFormed) =>
      LET cfg == call[p].provisionDetails.RawParameters
          e == call[p].e
      IN /\ cfg.Name = "" => e = ErrRequiresName
         /\ (cfg.Name # "" /\ ~cfg.hasCapacityRange)
              => e = ErrRequiresCapacityRange
         /\ (cfg.Name # "" /\ cfg.hasCapacityRange /\ ~cfg.hasServer)
              => e = ErrRequiresServer
         /\ (cfg.Name # "" /\ cfg.hasCapacityRange /\ cfg.hasServer
             /\ ~cfg.hasShare)
              => e = ErrRequiresShare
         /\ (cfg.Name # "" /\ cfg.hasCapacityRange /\ cfg.hasServer
             /\ cfg.hasShare)
              => e \notin {ErrRawParamsInvalid, ErrRequiresName,
                           ErrRequiresCapacityRange, ErrRequiresServer,
                           ErrRequiresShare}

C14_Witness ==
  \E p \in Procs :
    LET cfg == call[p].provisionDetails.RawParameters
    IN /\ Returned(p) /\ call[p].op = "Provision"
       /\ cfg.wellFormed /\ cfg.Name # "" /\ ~cfg.hasCapacityRange
       /\ ~cfg.hasServer /\ ~cfg.hasShare
       /\ call[p].e = ErrRequiresCapacityRange

\* a call that made no Gateway call and created or deleted no record
Untouched(c) ==
  /\ c.createCalls = 0 /\ c.deleteCalls = 0
  /\ ~c.wroteRecord /\ ~c.removedRecord

\* C15: precondition failures change nothing: Deprovision with an empty
\* instance identifier fails at once; Deprovision, Bind and Unbind on an
\* identifier with no InstanceRecord fail with InstanceDoesNotExistError;
\* Unbind of a binding with no BindingRecord fails with
\* BindingDoesNotExistError; no Gateway call is made and no record is
\* created or deleted.
C15_PreconditionFailures ==
  \A p \in Procs :
    Returned(p) =>
      LET c == call[p] IN
        /\ (c.op = "Deprovision" /\ c.instanceID = "")
             => (c.e = ErrEmptyInstanceID /\ Untouched(c) /\ c.saveCalls = 0)
        /\ (/\ c.op \in {"Deprovision", "Bind", "Unbind"}
            /\ c.instanceID # ""
            /\ c.instanceID \notin DOMAIN instanceStore
            /\ ~(c.op = "Deprovision" /\ c.removedRecord))
             => (c.e = ErrInstanceDoesNotExist /\ Untouched(c))
        /\ (/\ c.op = "Unbind"
            /\ c.instanceID \in DOMAIN instanceStore
            /\ c.bindingID \notin DOMAIN bindingStore
            /\ ~c.removedRecord)
             => (c.e = ErrBindingDoesNotExist /\ Untouched(c))

C15_Witness ==
  \E p \in Procs :
    /\ Returned(p) /\ call[p].op = "Unbind"
    /\ call[p].e = ErrBindingDoesNotExist
    /\ call[p].instanceID \in DOMAIN instanceStore
    /\ DOMAIN bindingStore # {} /\ DOMAIN claims # {}

\* C16: when the Gateway's delete call fails the record stays: Deprovision
\* returns the Gateway's error and the InstanceRecord remains; Unbind
\* returns the Gateway's error and the BindingRecord remains.
C16_DeleteFailureKeepsRecord ==
  \A p \in Procs :
    (Returned(p) /\ "delete" \in call[p].failures) =>
      LET c == call[p] IN
        /\ ~c.removedRecord
        /\ c.op = "Deprovision"
             => (c.e = ErrDeleteVolume
                 /\ c.instanceID \in DOMAIN instanceStore)
        /\ c.op = "Unbind"
             => (c.e = ErrDeleteClaim
                 /\ c.bindingID \in DOMAIN bindingStore)

C16_Witness ==
  \E p \in Procs :
    /\ Returned(p) /\ call[p].op = "Unbind"
    /\ "delete" \in call[p].failures
    /\ call[p].bindingID \in DOMAIN bindingStore

\* C17: a Bind whose binding identifier already has a BindingRecord with
\* different details (the instance exists and the parameters decode) fails
\* with BindingAlreadyExistsError before mutating the cluster: no
\* create-claim and no delete-claim call, and the record is as it was.
C17_BindingConflictRejected ==
  \A p \in Procs :
    (Returned(p) /\ call[p].op = "Bind") =>
      LET c == call[p] IN
        /\ (/\ c.instanceID \in DOMAIN instanceStore
            /\ params(c.bindDetails).wellFormed
            /\ c.bindingID \in DOMAIN bindingStore
            /\ bindingStore[c.bindingID] # c.bindDetails)
             => (c.conflict /\ c.e = ErrBindingAlreadyExists)
        /\ c.conflict
             => /\ c.e = ErrBindingAlreadyExists
                /\ Untouched(c)
                /\ c.bindingID \in DOMAIN bindingStore
                /\ bindingStore[c.bindingID] # c.bindDetails

C17_Witness ==
  \E p \in Procs :
    /\ Returned(p) /\ call[p].op = "Bind" /\ call[p].conflict
    /\ call[p].e = ErrBindingAlreadyExists
    /\ DOMAIN claims # {}

\* C18: when CreateBindingDetails fails, Bind returns that error and has
\* issued a delete-claim call for the claim it created; when that delete
\* succeeds the claim is gone when Bind returns.
C18_BindStoreFailureCompensated ==
  \A p \in Procs :
    (Returned(p) /\ call[p].op = "Bind" /\ "store" \in call[p].failures) =>
      LET c == call[p] IN
        /\ c.e = ErrCreateBindingDetails
        /\ c.createdObject
        /\ c.deleteCalls = 1
        /\ c.deletedName = c.claimName
        /\ "cleanup" \notin c.failures => c.claimName \notin DOMAIN claims

C18_Witness ==
  \E p \in Procs :
    /\ Returned(p) /\ call[p].op = "Bind"
    /\ call[p].failures = {"store"}
    /\ call[p].deletedObject
    /\ DOMAIN claims = {}

\* C19: when the create-claim call fails, Bind returns the Gateway's error,
\* writes no BindingRecord and issues no compensating delete-claim call.
C19_CreateClaimFailure ==
  \A p \in Procs :
    (Returned(p) /\ call[p].op = "Bind" /\ "create" \in call[p].failures) =>
      LET c == call[p] IN
        /\ c.e = ErrCreateClaim
        /\ ~c.wroteRecord
        /\ c.deleteCalls = 0
        /\ ~c.createdObject

C19_Witness ==
  \E p \in Procs :
    /\ Returned(p) /\ call[p].op = "Bind"
    /\ "create" \in call[p].failures
    /\ call[p].e = ErrCreateClaim
    /\ call[p].bindingID \notin DOMAIN bindingStore

\* a Bind that got as far as evaluating the access mode
EvaluatedMode(c) ==
  /\ c.op = "Bind"
  /\ ~c.conflict
  /\ c.e \notin {ErrInstanceDoesNotExist, ErrJSON}

\* C20: with no readonly key or the boolean false, Bind uses read-write-many
\* and the mode token rw; with the boolean true, read-only-many and r; with
\* any other value Bind fails with InvalidRequestError and creates no claim.
C20_AccessMode ==
  \A p \in Procs :
    (Returned(p) /\ EvaluatedMode(call[p])) =>
      LET c == call[p]
          ro == params(c.bindDetails).readonly
          made == c.createdObject /\ c.claimName \in DOMAIN claims
      IN /\ (ro = Absent \/ ro = JSONValue("bool", "false"))
              => /\ c.cfMode = "rw" /\ c.k8sMode = "ReadWriteMany"
                 /\ c.createCalls = 1
                 /\ made => claims[c.claimName].AccessMode = "ReadWriteMany"
         /\ ro = JSONValue("bool", "true")
              => /\ c.cfMode = "r" /\ c.k8sMode = "ReadOnlyMany"
                 /\ c.createCalls = 1
                 /\ made => claims[c.claimName].AccessMode = "ReadOnlyMany"
         /\ ro.kind \notin {"absent", "bool"}
              => /\ c.e = ErrRawParamsInvalid
                 /\ Untouched(c)

C20_Witness ==
  \E p \in Procs :
    /\ Returned(p) /\ EvaluatedMode(call[p])
    /\ params(call[p].bindDetails).readonly = JSONValue("bool", "false")
    /\ call[p].e = Nil
    /\ call[p].claimName \in DOMAIN claims
    /\ claims[call[p].claimName].AccessMode = "ReadWriteMany"

\* C21: the claim Bind requests is a function of the stored fingerprint
\* and the readonly parameter only: right after a create-claim call
\* succeeded, the claim carries the recorded volume's name, requests the
\* recorded volume's capacity, selects the volume's name label, and has the
\* access mode that readonly alone determines.
C21_ClaimFromFingerprint ==
  \A p \in Procs :
    (call[p].op = "Bind" /\ call[p].pc = "B_store") =>
      LET c == call[p]
          ro == params(c.bindDetails).readonly
      IN /\ c.instanceID \in DOMAIN instanceStore
         /\ LET vol == instanceStore[c.instanceID].ServiceFingerPrint.Volume
            IN /\ vol.Name \in DOMAIN claims
               /\ claims[vol.Name] =
                    [Name |-> vol.Name,
                     AccessMode |-> IF ro = JSONValue("bool", "true")
                                    THEN "ReadOnlyMany" ELSE "ReadWriteMany",
                     Requests |-> vol.Capacity,
                     SelectorKey |-> "name",
                     SelectorValue |-> vol.Label]

C21_Witness ==
  \E p \in Procs :
    /\ call[p].op = "Bind" /\ call[p].pc = "B_store"
    /\ call[p].bindingID = "b2"
    /\ params(call[p].bindDetails).readonly = JSONValue("bool", "true")
    /\ params(call[p].bindDetails).mount = JSONValue("string", "/mnt")
    /\ "vol2" \in DOMAIN claims
    /\ claims["vol2"].Requests = 5
    /\ "b1" \in DOMAIN bindingStore

Called(op, serviceID) ==
  registry.result.op = op /\ registry.result.serviceID = serviceID

\* what the last call found: the cache of its kind of client
CacheBefore ==
  IF registry.result.op = "IdentityClient"
  THEN registry.result.before.identityClients
  ELSE registry.result.before.controllerClients

\* every entry that cache c held is held by cache d, unchanged
Kept(c, d) == \A s \in DOMAIN c : s \in DOMAIN d /\ d[s] = c[s]

\* C23: a call of IdentityClient (ControllerClient) for a service whose
\* client is cached returns nil and that cached client and calls Dial for no
\* service; and no call of any method removes or replaces an entry of
\* either cache.
C23_Memoized ==
  /\ \A s \in RegistryIDs :
       ((Called("IdentityClient", s) \/ Called("ControllerClient", s))
        /\ s \in DOMAIN CacheBefore) =>
         /\ registry.result.err = Nil
         /\ registry.result.client = <<CacheBefore[s]>>
         /\ registry.dialed = registry.result.before.dialed
  /\ Kept(registry.result.before.identityClients, registry.identityClients)
  /\ Kept(registry.result.before.controllerClients,
          registry.controllerClients)

C23_Witness ==
  /\ Called("IdentityClient", "svc2")
  /\ "svc2" \in DOMAIN registry.result.before.identityClients
  /\ registry.result.client = <<Client("IdentityClient", 2)>>
  /\ "svc2" \in DOMAIN registry.controllerClients
  /\ Count(registry.dialed, "svc2") = MaxDials

\* C24: for every service, the calls of IdentityClient and ControllerClient
\* made so far have opened at most one connection for it (failed Dial calls
\* are not counted).
C24_OneConnectionPerService ==
  \A s \in RegistryIDs : Count(registry.opened, s) <= 1

\* C25: a call of IdentityClient or ControllerClient whose Dial fails returns
\* the transport error and leaves both caches as it found them, without an
\* entry for the service in the cache of its kind; and every call that finds
\* no entry for a catalog service with a connection address calls Dial.
C25_FailureNotCached ==
  \A s \in RegistryIDs :
    (Called("IdentityClient", s) \/ Called("ControllerClient", s)) =>
      LET r == registry.result
          found == findServiceByID(s)
          dials == Count(registry.dialed, s) = Count(r.before.dialed, s) + 1
      IN /\ (dials /\ registry.opened = r.before.opened) =>
              /\ r.err = ErrDial
              /\ r.client = <<>>
              /\ registry.identityClients = r.before.identityClients
              /\ registry.controllerClients = r.before.controllerClients
              /\ s \notin DOMAIN CacheBefore
         /\ r.err = ErrDial => (dials /\ registry.opened = r.before.opened)
         /\ (s \notin DOMAIN CacheBefore /\ found # <<>>
             /\ found[1].ConnAddr # "") => dials

\* a second Dial for a service whose first one failed
C25_Witness ==
  /\ Called("ControllerClient", "svc2")
  /\ registry.result.err = ErrDial
  /\ Count(registry.result.before.dialed, "svc2") = 1
  /\ Count(registry.result.before.opened, "svc2") = 0
  /\ registry.result.before.controllerClients = EmptyMap
  /\ registry.controllerClients = EmptyMap

\* C26: IdentityClient, ControllerClient and DriverName called with an ID
\* that no catalog entry has return ErrServiceNotFound carrying that ID;
\* IdentityClient and ControllerClient called for a catalog service with an
\* empty connection address return nil and the no-op client of their kind;
\* in both cases Dial is not called and both caches stay as they were.
C26_NotFoundAndNoop ==
  \A s \in RegistryIDs :
    LET r == registry.result
        entries == {k \in 1..Len(registry.services) :
                      registry.services[k].ID = s}
        unknown == entries = {}
        noAddress == /\ entries # {}
                     /\ \A k \in entries : registry.services[k].ConnAddr = ""
        quiet == /\ registry.dialed = r.before.dialed
                 /\ registry.opened = r.before.opened
                 /\ registry.identityClients = r.before.identityClients
                 /\ registry.controllerClients = r.before.controllerClients
    IN /\ ((Called("IdentityClient", s) \/ Called("ControllerClient", s)
            \/ Called("DriverName", s)) /\ unknown) =>
            /\ r.err = ErrServiceNotFound
            /\ r.id = s
            /\ r.client = <<>>
            /\ quiet
       /\ (Called("IdentityClient", s) /\ noAddress) =>
            /\ r.err = Nil
            /\ r.client = <<Client("NoopIdentityClient", 0)>>
            /\ quiet
       /\ (Called("ControllerClient", s) /\ noAddress) =>
            /\ r.err = Nil
            /\ r.client = <<Client("NoopControllerClient", 0)>>
            /\ quiet

\* an unknown ID asked for while the caches hold clients of another service
C26_Witness ==
  /\ Called("ControllerClient", "svc-unknown")
  /\ registry.result.err = ErrServiceNotFound
  /\ registry.result.id = "svc-unknown"
  /\ Len(registry.services) = MaxCatalog
  /\ "svc2" \in DOMAIN registry.identityClients
  /\ "svc2" \in DOMAIN registry.controllerClients

\* an entry that lacks an identifier, a name, a description or a plan
LacksField(service) ==
  \/ service.ID = ""
  \/ service.Name = ""
  \/ service.Description = ""
  \/ service.Plans = NilPlans
  \/ service.Plans = PlanList(<<>>)

\* C27: NewServicesRegistry on a decoded list returns ErrEmptySpecFile for
\* the empty list, else ErrInvalidService with the index of the first entry
\* that lacks an identifier, a name, a description or a plan (no plan list,
\* or an empty one), else a registry with empty caches and no Dial call.
C27_CatalogLoad ==
  (registry.result.op = "NewServicesRegistry"
   /\ registry.file.readable /\ registry.file.wellFormed) =>
    LET r == registry.result
        services == registry.file.services
        bad == {k \in 1..Len(services) : LacksField(services[k])}
    IN IF services = <<>>
       THEN r.err = ErrEmptySpecFile /\ ~registry.loaded
       ELSE IF bad # {}
       THEN /\ r.err = ErrInvalidService
            /\ r.index = <<(CHOOSE k \in bad : \A m \in bad : k <= m) - 1>>
            /\ ~registry.loaded
       ELSE /\ r.err = Nil
            /\ registry.loaded
            /\ registry.services = services
            /\ registry.identityClients = EmptyMap
            /\ registry.controllerClients = EmptyMap
            /\ registry.dialed = EmptyMap

(***************************************************************************)
(* Serialization and ordering (Spec, SpecInstances).                       *)
(***************************************************************************)
\* the handler is between its Lock and its deferred Unlock
InLockedSection(p) ==
  call[p].pc \in {"P_conflict", "P_store", "P_save", "P_unlock",
                  "D_store", "D_save", "D_unlock",
                  "B_check", "B_create", "B_store", "B_cleanup", "B_save",
                  "B_unlock",
                  "U_check", "U_delete", "U_store", "U_save", "U_unlock"}

\* the handler's next step is a Store conflict check, a Store write or
\* delete of a record, or Save
AtStoreStep(p) ==
  call[p].pc \in {"P_conflict", "P_store", "P_save",
                  "D_store", "D_save",
                  "B_check", "B_store", "B_save",
                  "U_store", "U_save"}

\* C28: at most one handler is between its Lock and its Unlock, and that
\* handler holds the mutex; a handler about to make a conflict check, a
\* record write or delete, or Save is in that section, and every Save was
\* called there; from a conflict check that found no conflict to the write
\* it guards, the Store still holds no conflicting record for the key.
C28_Serialized ==
  /\ Cardinality({p \in Procs : InLockedSection(p)}) <= 1
  /\ \A p \in Procs :
       /\ InLockedSection(p) => mutex = <<p>>
       /\ AtStoreStep(p) => InLockedSection(p)
       /\ call[p].saveAt # "unlocked"
       /\ call[p].pc = "P_store" =>
            ~IsInstanceConflict(call[p].instanceID, instanceDetails(call[p]))
       /\ call[p].pc \in {"B_create", "B_store"} =>
            ~IsBindingConflict(call[p].bindingID, call[p].bindDetails)

\* one handler between its conflict check and its write, the other one
\* waiting for the mutex with its volume already created
C28_Witness ==
  /\ call["h1"].op = "Provision"
  /\ call["h1"].pc = "P_store"
  /\ call["h2"].op = "Provision"
  /\ call["h2"].pc = "P_lock"
  /\ call["h2"].createdObject
  /\ mutex = <<"h1">>

\* C29: with a Gateway that rejects duplicate names (and no call failing
\* for outside reasons), every instance record in the Store names a volume
\* that exists in the cluster, unless a Deprovision of that same instance
\* has deleted the volume and has not yet deleted the record: no call of
\* another instance, and no Provision, takes a recorded volume away.
C29_RecordedVolumeKept ==
  (gatewayRejectsDuplicates /\ ~callsMayFail) =>
    \A i \in DOMAIN instanceStore :
      \/ instanceStore[i].ServiceFingerPrint.Volume.Name \in DOMAIN volumes
      \/ \E p \in Procs :
           /\ call[p].op = "Deprovision"
           /\ call[p].instanceID = i
           /\ call[p].pc \in {"D_lock", "D_store"}
           /\ call[p].deletedObject

\* C30: a Provision (Bind) that is about to call, or has called,
\* CreateInstanceDetails (CreateBindingDetails) has had its create-volume
\* (create-claim) call succeed; a Deprovision (Unbind) that is about to
\* call, or has called, DeleteInstanceDetails (DeleteBindingDetails) has had
\* its delete-volume (delete-claim) call succeed.
C30_StoreAfterCluster ==
  \A p \in Procs :
    LET c == call[p]
        storeCall == \/ c.pc \in {"P_store", "B_store", "D_store", "U_store"}
                     \/ c.wroteRecord
                     \/ c.removedRecord
                     \/ "store" \in c.failures
    IN /\ (c.op \in {"Provision", "Bind"} /\ storeCall) => c.createdObject
       /\ (c.op \in {"Deprovision", "Unbind"} /\ storeCall) => c.deletedObject

\* a Deprovision about to delete its record while an Unbind has deleted
\* its own
C30_Witness ==
  /\ call["h1"].op = "Deprovision"
  /\ call["h1"].pc = "D_store"
  /\ call["h1"].deletedObject
  /\ call["h2"].op = "Unbind"
  /\ call["h2"].removedRecord
  /\ call["h2"].deletedObject

\* C31: a Provision that makes its compensating delete-volume call (after a
\* conflict or a failed CreateInstanceDetails) makes it while it holds the
\* mutex.
C31_CompensationLocked ==
  \A p \in Procs :
    (call[p].op = "Provision" /\ call[p].cleanupAt # "") =>
      call[p].cleanupAt = "locked"

\* C32: no call reads the Store while a Bind holds the mutex between its
\* instance lookup and its return (every other Store access is a step of
\* the locked section, which one handler at a time is in).
C32_BindExcludesOthers == \A p \in Procs : ~call[p].readUnderBind

(***************************************************************************)
(* Bindings and their claims (SpecPairs).                                  *)
(***************************************************************************)
\* the name of the claim of a binding of instance i: its volume's name
ClaimNameOf(i) == instanceStore[i].ServiceFingerPrint.Volume.Name

\* C33: an Unbind(i, b) of a binding b that was bound to another instance
\* j, both instances existing, that has made its delete-claim call and is
\* about to delete the record of b: the claim of every recorded binding of
\* i is still there, and the claim of b (the claim of j) is gone.
C33_UnbindOnlyItsBinding ==
  \A p \in Procs :
    LET c == call[p]
    IN (/\ c.op = "Unbind" /\ c.pc = "U_store"
        /\ c.bindingID \in DOMAIN bindingInstance
        /\ bindingInstance[c.bindingID] # c.instanceID
        /\ bindingInstance[c.bindingID] \in DOMAIN instanceStore
        /\ c.instanceID \in DOMAIN instanceStore) =>
         /\ \A b \in DOMAIN bindingStore :
              (b \in DOMAIN bindingInstance
               /\ bindingInstance[b] = c.instanceID) =>
                ClaimNameOf(c.instanceID) \in DOMAIN claims
         /\ ClaimNameOf(bindingInstance[c.bindingID]) \notin DOMAIN claims

\* C34: the claims of two recorded bindings of one instance are distinct:
\* no two BindingRecords rely on one claim.
C34_DistinctClaims ==
  \A b1 \in DOMAIN bindingStore, b2 \in DOMAIN bindingStore :
    (/\ b1 # b2
     /\ b1 \in DOMAIN bindingInstance /\ b2 \in DOMAIN bindingInstance
     /\ bindingInstance[b1] \in DOMAIN instanceStore
     /\ bindingInstance[b2] \in DOMAIN instanceStore) =>
      ClaimNameOf(bindingInstance[b1]) # ClaimNameOf(bindingInstance[b2])

(***************************************************************************)
(* Termination (SpecLive).                                                 *)
(***************************************************************************)
\* the handler is at b.mutex.Lock()
AtLock(p) == call[p].pc \in {"P_lock", "D_lock", "B_lock", "U_lock"}

\* C35: when no call is in progress the mutex is free, whatever the calls
\* returned; every call in progress returns; and every call at Lock gets
\* into its locked section.
C35_LockReleased ==
  /\ []((\A p \in Procs : Idle(p)) => mutex = <<>>)
  /\ \A p \in Procs : (~Idle(p)) ~> Idle(p)
  /\ \A p \in Procs : AtLock(p) ~> InLockedSection(p)

\* a handler holds the mutex after the other one has returned from a Bind
\* that failed inside its locked section
C35_Witness ==
  /\ call["h2"].op = "Bind"
  /\ Idle("h2")
  /\ call["h2"].e # Nil
  /\ call["h2"].saveCalls > 0
  /\ call["h1"].op = "Deprovision"
  /\ mutex = <<"h1">>
  /\ InLockedSection("h1")

(***************************************************************************)
(* Concurrent calls of the registry (SpecRace).                            *)
(***************************************************************************)
\* once no call is in progress, the cache holds a client for every service
\* a call has opened a connection for, one of the clients the calls made
CacheSettled ==
  (\A p \in Procs : registry.callers[p].pc = "done") =>
    \A p \in Procs :
      LET c == registry.callers[p]
      IN (c.dialed /\ c.err = Nil) =>
           /\ c.serviceID \in DOMAIN registry.identityClients
           /\ registry.identityClients[c.serviceID].kind = "IdentityClient"

\* C36: concurrent IdentityClient calls do not corrupt the cache: the
\* runtime does not end the process for its map accesses, and once no call
\* is in progress the cache holds one client for every service a call has
\* opened a connection for.
C36_CacheNotCorrupted == ~registry.fatal /\ CacheSettled

(***************************************************************************)
(* Save and the return of Bind (Spec, SpecClaims).                         *)
(***************************************************************************)
\* C37: a call that has returned has called Save exactly once if it is a
\* Bind or an Unbind, a Deprovision whose delete-volume call succeeded, or
\* a Provision whose create-volume call succeeded.
C37_SaveOnce ==
  \A p \in Procs :
    LET c == call[p]
    IN (/\ Returned(p)
        /\ \/ c.op \in {"Bind", "Unbind"}
           \/ c.op = "Deprovision" /\ c.deleteCalls > 0
                                   /\ "delete" \notin c.failures
           \/ c.op = "Provision" /\ c.createdObject) =>
         c.saveCalls = 1

\* a Bind that failed at its first check and a Provision that met a
\* conflict have both saved
C37_Witness ==
  /\ Returned("h1") /\ call["h1"].op = "Bind"
  /\ call["h1"].e = ErrInstanceDoesNotExist
  /\ call["h1"].saveCalls = 1
  /\ Returned("h2") /\ call["h2"].op = "Provision"
  /\ call["h2"].conflict
  /\ call["h2"].saveCalls = 1

\* C38: every Bind returns a Binding or an error value: no Bind ends in a
\* runtime abort, whatever the type of its "mount" parameter.
C38_BindNeverAborts ==
  \A p \in Procs :
    (Returned(p) /\ call[p].op = "Bind") => ~call[p].panicked

====
